---- MODULE Spec2Model ----
(***************************************************************************)
(* SysCRED: evidence retrieval (TRECRetriever), graph-memory context       *)
(* scoring (GraphRAG) and credibility fusion (calculate_overall_score).    *)
(*                                                                         *)
(* Real numbers are modelled exactly: weights and adjustments of the       *)
(* fusion engine are integers in units of 1/10000, scores that come out of *)
(* a division are rationals <<num, den>> with den > 0.                     *)
(***************************************************************************)
EXTENDS Integers, Sequences, FiniteSets, TLC

VARIABLES
    corpus,         \* TRECRetriever.corpus: the documents, in insertion order
    stats,          \* TRECRetriever.stats
    last_call,      \* arguments of the last retrieve_evidence call
    last_result,    \* the RetrievalResult it returned
    last_trace,     \* what that call did: ranker runs, size of the first result
    first_call,     \* arguments of the first call made with the default k and use_prf
    first_result,   \* the RetrievalResult that call returned
    other_calls,    \* whether a call with other arguments followed it
    requests,       \* the API requests in flight: where each is in retrieve_evidence
    om,             \* GraphRAG.om: the ontology manager and the reports in its graphs
    ctx_call,       \* the last GraphRAG call: its operation and arguments
    ctx_result,     \* what that call returned
    queries,        \* the graph queries that call built and ran
    fusion_pc,      \* the step verify_information has reached
    fusion_in,      \* rule_results and nlp_results of the request
    fusion_out,     \* calculate_overall_score: its locals at the return, and its result
    report,         \* the report generate_report built from them
    prev_run,       \* the inputs and the score of the run before this one
    ir_engine,      \* TRECRetriever.ir_engine: whether it has a Pyserini searcher
    outcome,        \* how the last retrieval call ended: a result, or an exception
    batch,          \* the last batch_retrieve call: its claims and its results
    qrels,          \* TRECDataset.qrels: topic_id -> doc_id -> relevance
    qrel_load,      \* the last _parse_qrel_file call: the file's lines, the count returned
    run_file,       \* the last format_trec_run call: the results, the text written
    metric_call,    \* the last recall_at_k call: its arguments and its value
    bench,          \* the remote LIAR benchmark: where main is, its statements and results
    trec_retriever  \* the server's module-level retriever, and the handlers that reach for it

fusionVars == <<fusion_pc, fusion_in, fusion_out, report, prev_run>>

facadeVars == <<ir_engine, outcome, batch>>

retrieverVars == <<corpus, stats, last_call, last_result, last_trace, first_call, first_result,
                   other_calls, requests, ir_engine, outcome, batch>>

graphVars == <<om, ctx_call, ctx_result, queries>>

benchVars == <<qrels, qrel_load, run_file, metric_call, bench, trec_retriever>>

vars == <<corpus, stats, last_call, last_result, last_trace, first_call, first_result, other_calls,
          requests, om, ctx_call, ctx_result, queries,
          fusion_pc, fusion_in, fusion_out, report, prev_run, ir_engine, outcome, batch,
          qrels, qrel_load, run_file, metric_call, bench, trec_retriever>>

\* Python's None, for an optional number and for an optional record
NoneNum == -1
NoSentiment == [label |-> "None", score |-> 0]

\* GraphRAG(None): no ontology manager
NoOm == [present |-> FALSE, reports |-> << >>]
NoCtxCall == [op |-> "none", domain |-> << >>, keywords |-> << >>,
              history_fails |-> FALSE, similar_fails |-> FALSE]
NoCtxResult == [done |-> FALSE]

\* IREngine(index_path=None): no searcher; no call made yet
NoSearcher == [searcher |-> FALSE]
NoOutcome == [kind |-> "none", served_by |-> "none", index_error |-> FALSE]
NoBatch == [pc |-> "idle", claims |-> << >>, k |-> << >>, results |-> << >>]

FacadeIdle ==
    /\ ir_engine = NoSearcher
    /\ outcome = NoOutcome
    /\ batch = NoBatch

\* TRECDataset(): nothing loaded
NoQrels == << >>
NoQrelLoad == [done |-> FALSE, lines |-> << >>, count |-> 0]
NoRunFile == [done |-> FALSE, results |-> << >>, text |-> << >>]
NoBench == [pc |-> "constructed", statements |-> << >>, results |-> << >>, log |-> << >>,
            saved |-> << >>]
NoRetriever == [instance |-> 0, constructed |-> 0, handlers |-> << >>]
NoMetricCall == [done |-> FALSE, retrieved |-> << >>, relevant |-> {}, k |-> 0, value |-> <<0, 1>>]

BenchIdle ==
    /\ qrels = NoQrels
    /\ qrel_load = NoQrelLoad
    /\ run_file = NoRunFile
    /\ metric_call = NoMetricCall
    /\ bench = NoBench
    /\ trec_retriever = NoRetriever

GraphIdle ==
    /\ om = NoOm
    /\ ctx_call = NoCtxCall
    /\ ctx_result = NoCtxResult
    /\ queries = << >>

----------------------------------------------------------------------------
(* Rationals *)

RECURSIVE Gcd(_, _)
Gcd(a, b) == IF b = 0 THEN a ELSE Gcd(b, a % b)

\* the same rational in lowest terms
Reduced(a) == LET g == Gcd(a[1], a[2]) IN IF g = 0 THEN a ELSE <<a[1] \div g, a[2] \div g>>

RatEq(a, b) == a[1] * b[2] = b[1] * a[2]
RatLess(a, b) == a[1] * b[2] < b[1] * a[2]
RatLeq(a, b) == a[1] * b[2] <= b[1] * a[2]

Half == <<1, 2>>
Zero == <<0, 1>>
One == <<1, 1>>

\* max(0.0, min(1.0, x))
Clamp01(x) == IF RatLess(x, Zero) THEN Zero ELSE IF RatLess(One, x) THEN One ELSE x

Abs(n) == IF n < 0 THEN -n ELSE n
Min(a, b) == IF a < b THEN a ELSE b

RECURSIVE SetSum(_, _)
SetSum(f, S) == IF S = {} THEN 0
                ELSE LET x == CHOOSE y \in S : TRUE
                     IN  f[x] + SetSum(f, S \ {x})

----------------------------------------------------------------------------
(* Credibility fusion: calculate_overall_score                             *)

\* weights, in units of 1/10000
WEIGHT_REPUTATION == 3000
WEIGHT_AGE == 500
WEIGHT_CERTAINTY == 1000
WEIGHT_DOUBT == 1500
WEIGHT_SENSATIONALISM == 1000
WEIGHT_NEGATIVE_SENTIMENT == 500
WEIGHT_BIAS == 1500
WEIGHT_COHERENCE == 500
\* weight_sum = 1.0 at the start of calculate_overall_score
BASE_WEIGHT_SUM == 10000

\* bound on the number of marker words of one kind found in a text
MaxMarkers == 2
\* the sensationalism penalty is capped at three words; the inputs go one beyond
SensationalismCap == 3

Reputations == {"High", "Low", "Medium", "Unknown"}
\* domain_age_days: None, or a number of days around the 90 and 730 cut-offs
DomainAges == {NoneNum, 30, 90, 730, 1500}
\* sentiment: None, or label and score (in hundredths)
Sentiments == {NoSentiment} \cup [label : {"POSITIVE", "NEGATIVE"}, score : {85, 99}]
                     \cup {[label |-> "Neutral", score |-> 50], [label |-> "Error", score |-> 0]}
\* bias_analysis as nlp_analysis produces it: flagged above 0.7
BiasResults == {[score |-> NoneNum, label |-> "Unavailable"],
                [score |-> NoneNum, label |-> "Error"],
                [score |-> 40, label |-> "Low Bias Detected (Simulated)"],
                [score |-> 71, label |-> "Potential Bias Flagged (Simulated)"],
                [score |-> 80, label |-> "Potential Bias Flagged (Simulated)"],
                [score |-> 100, label |-> "Potential Bias Flagged (Simulated)"]}
\* coherence_score: None, or a value of np.random.rand() in hundredths
Coherences == {NoneNum, 0, 50, 90}

Flagged(label) == label = "Potential Bias Flagged (Simulated)"

RuleResults == [reputation : Reputations, domain_age_days : DomainAges,
                certainty : 0..MaxMarkers, doubt : 0..MaxMarkers,
                sensationalism : 0..(SensationalismCap + 1)]
NlpResults == [sentiment : Sentiments, bias_analysis : BiasResults,
               coherence_score : Coherences]

\* one "if" block of calculate_overall_score: acc is [adj, ws]
Acc(adj, ws) == [adj |-> adj, ws |-> ws]

StepReputation(acc, r) ==
    IF r.reputation = "High" THEN Acc(acc.adj + WEIGHT_REPUTATION, acc.ws + WEIGHT_REPUTATION)
    ELSE IF r.reputation = "Low" THEN Acc(acc.adj - WEIGHT_REPUTATION, acc.ws + WEIGHT_REPUTATION)
    ELSE acc

StepAge(acc, r) ==
    IF r.domain_age_days # NoneNum
    THEN IF r.domain_age_days > 365 * 2 THEN Acc(acc.adj + WEIGHT_AGE, acc.ws + WEIGHT_AGE)
         ELSE IF r.domain_age_days < 90 THEN Acc(acc.adj - WEIGHT_AGE, acc.ws + WEIGHT_AGE)
         ELSE acc
    ELSE acc

\* the certainty bonus applied without looking at the doubt markers
StepMarkers_NoDoubtCheck(acc, r) ==
    IF r.certainty > 0
    THEN Acc(acc.adj + WEIGHT_CERTAINTY * r.certainty, acc.ws + WEIGHT_CERTAINTY * r.certainty)
    ELSE IF r.doubt > 0
    THEN Acc(acc.adj - WEIGHT_DOUBT * r.doubt, acc.ws + WEIGHT_DOUBT * r.doubt)
    ELSE acc

StepMarkers(acc, r) ==
    IF r.certainty > 0 /\ r.doubt = 0
    THEN Acc(acc.adj + WEIGHT_CERTAINTY * r.certainty, acc.ws + WEIGHT_CERTAINTY * r.certainty)
    ELSE IF r.doubt > 0
    THEN Acc(acc.adj - WEIGHT_DOUBT * r.doubt, acc.ws + WEIGHT_DOUBT * r.doubt)
    ELSE acc

StepSensationalism(acc, r) ==
    IF r.sensationalism > 0
    THEN LET sensationalism_penalty ==
                 Min(WEIGHT_SENSATIONALISM * r.sensationalism, WEIGHT_SENSATIONALISM * 3)
         IN  Acc(acc.adj - sensationalism_penalty, acc.ws + sensationalism_penalty)
    ELSE acc

StepSentiment(acc, n) ==
    IF n.sentiment # NoSentiment
    THEN IF n.sentiment.label = "NEGATIVE" /\ n.sentiment.score > 85
         THEN Acc(acc.adj - WEIGHT_NEGATIVE_SENTIMENT, acc.ws + WEIGHT_NEGATIVE_SENTIMENT)
         ELSE acc
    ELSE acc

\* bias_impact = WEIGHT_BIAS * ((score - 0.5) * 2), score in hundredths
StepBias(acc, n) ==
    IF Flagged(n.bias_analysis.label)
    THEN IF n.bias_analysis.score # NoneNum
         THEN LET bias_impact == (WEIGHT_BIAS * (n.bias_analysis.score - 50) * 2) \div 100
              IN  Acc(acc.adj - bias_impact, acc.ws + WEIGHT_BIAS)
         ELSE acc
    ELSE acc

\* coherence_adjustment = (coherence - 0.5) * WEIGHT_COHERENCE
StepCoherence(acc, n) ==
    IF n.coherence_score # NoneNum
    THEN LET coherence_adjustment == ((n.coherence_score - 50) * WEIGHT_COHERENCE) \div 100
         IN  Acc(acc.adj + coherence_adjustment, acc.ws + Abs(coherence_adjustment))
    ELSE acc

\* the adjustment taken with the opposite sign
FinalScore_SignFlipped(adj, ws) == IF ws > 0 THEN <<ws - 2 * adj, 2 * ws>> ELSE Half
\* final_score = 0.5 + score_adjustment / weight_sum if weight_sum > 0 else 0.5
FinalScore(adj, ws) == IF ws > 0 THEN <<ws + 2 * adj, 2 * ws>> ELSE Half

calculate_overall_score(rule_results, nlp_results) ==
    LET a0 == Acc(0, BASE_WEIGHT_SUM)
        a1 == StepReputation(a0, rule_results)
        a2 == StepAge(a1, rule_results)
        a3 == StepMarkers(a2, rule_results)
        a4 == StepSensationalism(a3, rule_results)
        a5 == StepSentiment(a4, nlp_results)
        a6 == StepBias(a5, nlp_results)
        a7 == StepCoherence(a6, nlp_results)
    IN  [done |-> TRUE,
         score_adjustment |-> a7.adj,
         weight_sum |-> a7.ws,
         score |-> Clamp01(FinalScore(a7.adj, a7.ws))]

\* one entry of detailsScore.adjustments: the factor and its value string,
\* with the number the string is formatted from (NoneNum when it has none)
Adjustment(factor, text, num) == [factor |-> factor, text |-> text, num |-> num]

AdjReputation(r) ==
    IF r.reputation = "High" THEN <<Adjustment("Source Reputation", "+High", NoneNum)>>
    ELSE IF r.reputation = "Low" THEN <<Adjustment("Source Reputation", "-Low", NoneNum)>>
    ELSE << >>

AdjAge(r) ==
    IF r.domain_age_days # NoneNum
    THEN IF r.domain_age_days > 365 * 2 THEN <<Adjustment("Domain Age", "+Old", NoneNum)>>
         ELSE IF r.domain_age_days < 90 THEN <<Adjustment("Domain Age", "-New", NoneNum)>>
         ELSE << >>
    ELSE << >>

\* the marker records without the one for doubt
AdjMarkers_NoDoubtRecord(r) ==
    IF r.certainty > 0 /\ r.doubt = 0
    THEN <<Adjustment("Certainty Markers", "+", r.certainty)>>
    ELSE << >>
AdjMarkers(r) ==
    IF r.certainty > 0 /\ r.doubt = 0
    THEN <<Adjustment("Certainty Markers", "+", r.certainty)>>
    ELSE IF r.doubt > 0 THEN <<Adjustment("Doubt Markers", "-", r.doubt)>>
    ELSE << >>

AdjSensationalism(r) ==
    IF r.sensationalism > 0 THEN <<Adjustment("Sensationalism", "-", r.sensationalism)>>
    ELSE << >>

AdjSentiment(n) ==
    IF n.sentiment # NoSentiment /\ n.sentiment.label = "NEGATIVE" /\ n.sentiment.score > 85
    THEN <<Adjustment("Strong Negative Sentiment", "-Impact", NoneNum)>>
    ELSE << >>

\* no test of the score here: a flagged bias is listed whatever its score
AdjBias(n) ==
    IF Flagged(n.bias_analysis.label)
    THEN <<Adjustment("Potential Bias", "-Impact (Score)", n.bias_analysis.score)>>
    ELSE << >>

\* adj_val = round(coherence_score - 0.5, 2), in hundredths
AdjCoherence(n) ==
    IF n.coherence_score # NoneNum
    THEN LET adj_val == n.coherence_score - 50
         IN  <<Adjustment("Coherence (Simulated)", IF adj_val >= 0 THEN "+" ELSE "", adj_val)>>
    ELSE << >>

get_score_adjustments(rule_results, nlp_results) ==
    AdjReputation(rule_results) \o AdjAge(rule_results) \o AdjMarkers(rule_results)
        \o AdjSensationalism(rule_results) \o AdjSentiment(nlp_results)
        \o AdjBias(nlp_results) \o AdjCoherence(nlp_results)

\* the first sentence of resumeAnalyse, with the cut-offs exchanged
CredibilityLabel_LowFirst(overall_score) ==
    IF RatLess(<<75, 100>>, overall_score) THEN "FAIBLE"
    ELSE IF RatLess(<<55, 100>>, overall_score) THEN "FAIBLE a MOYENNE"
    ELSE IF RatLess(<<45, 100>>, overall_score) THEN "MOYENNE"
    ELSE IF RatLess(<<25, 100>>, overall_score) THEN "MOYENNE a ELEVEE"
    ELSE "ELEVEE"
\* the first sentence of resumeAnalyse
CredibilityLabel(overall_score) ==
    IF RatLess(<<75, 100>>, overall_score) THEN "ELEVEE"
    ELSE IF RatLess(<<55, 100>>, overall_score) THEN "MOYENNE a ELEVEE"
    ELSE IF RatLess(<<45, 100>>, overall_score) THEN "MOYENNE"
    ELSE IF RatLess(<<25, 100>>, overall_score) THEN "FAIBLE a MOYENNE"
    ELSE "FAIBLE"

\* round(x, 2) in hundredths, for x >= 0: to the nearest, a tie to the even one
Round2(x) ==
    LET scaled == 100 * x[1]
        q == scaled \div x[2]
        twice == 2 * (scaled % x[2])
    IN  IF twice < x[2] THEN q
        ELSE IF twice > x[2] THEN q + 1
        ELSE IF q % 2 = 0 THEN q ELSE q + 1

generate_report(rule_results, nlp_results, overall_score) ==
    [done |-> TRUE,
     scoreCredibilite |-> Round2(overall_score),
     base |-> Half,
     adjustments |-> get_score_adjustments(rule_results, nlp_results),
     label |-> CredibilityLabel(overall_score)]

NoReport == [done |-> FALSE]
NoRun == [done |-> FALSE]

\* verify_information runs rule_based_analysis, nlp_analysis and then
\* calculate_overall_score on their results (steps 4 to 6)
NoRuleResults == [reputation |-> "Unknown", domain_age_days |-> NoneNum,
                  certainty |-> 0, doubt |-> 0, sensationalism |-> 0]
NoNlpResults == [sentiment |-> NoSentiment,
                 bias_analysis |-> [score |-> NoneNum, label |-> "Unavailable"],
                 coherence_score |-> NoneNum]

InitFusion ==
    /\ fusion_pc = "start"
    /\ fusion_in = [rule_results |-> NoRuleResults, nlp_results |-> NoNlpResults]
    /\ fusion_out = [done |-> FALSE]
    /\ report = NoReport
    /\ prev_run = NoRun
    /\ corpus = << >>
    /\ stats = [queries_processed |-> 0]
    /\ last_call = [claim |-> << >>, k |-> << >>, use_prf |-> << >>, made |-> FALSE]
    /\ last_result = [query |-> << >>, evidences |-> << >>, total_retrieved |-> 0,
                      expanded_query |-> << >>]
    /\ last_trace = [ranker_runs |-> 0, use_prf |-> FALSE, first_hits |-> 0, expansion |-> << >>]
    /\ first_call = last_call
    /\ first_result = last_result
    /\ other_calls = FALSE
    /\ requests = << >>
    /\ FacadeIdle
    /\ GraphIdle
    /\ BenchIdle

RuleBasedAnalysis ==
    /\ fusion_pc = "start"
    /\ \E r \in RuleResults :
           fusion_in' = [rule_results |-> r, nlp_results |-> NoNlpResults]
    /\ fusion_out' = [done |-> FALSE]
    /\ fusion_pc' = "rules"
    /\ UNCHANGED <<benchVars, report, prev_run, retrieverVars, graphVars>>

NlpAnalysis ==
    /\ fusion_pc = "rules"
    /\ \E n \in NlpResults : fusion_in' = [fusion_in EXCEPT !.nlp_results = n]
    /\ fusion_pc' = "nlp"
    /\ UNCHANGED <<benchVars, fusion_out, report, prev_run, retrieverVars, graphVars>>

CalculateOverallScore ==
    /\ fusion_pc = "nlp"
    /\ fusion_out' = calculate_overall_score(fusion_in.rule_results, fusion_in.nlp_results)
    /\ fusion_pc' = "scored"
    /\ UNCHANGED <<benchVars, fusion_in, report, prev_run, retrieverVars, graphVars>>

\* step 7 of verify_information
GenerateReport ==
    /\ fusion_pc = "scored"
    /\ report' = generate_report(fusion_in.rule_results, fusion_in.nlp_results, fusion_out.score)
    /\ fusion_pc' = "reported"
    /\ UNCHANGED <<benchVars, fusion_in, fusion_out, prev_run, retrieverVars, graphVars>>

\* the report is returned; the next call of verify_information starts afresh
VerifyInformationReturn ==
    /\ fusion_pc = "reported"
    /\ fusion_pc' = "start"
    /\ fusion_in' = [rule_results |-> NoRuleResults, nlp_results |-> NoNlpResults]
    /\ fusion_out' = [done |-> FALSE]
    /\ report' = NoReport
    /\ UNCHANGED <<benchVars, prev_run, retrieverVars, graphVars>>

NextFusion ==
    \/ RuleBasedAnalysis
    \/ NlpAnalysis
    \/ CalculateOverallScore
    \/ GenerateReport
    \/ VerifyInformationReturn

SpecFusion == InitFusion /\ [][NextFusion]_vars

----------------------------------------------------------------------------
(* Fusion: which signals contribute, and with which weight and adjustment  *)

Signals == {"reputation", "age", "certainty", "doubt", "sensationalism",
            "sentiment", "bias", "coherence"}

\* the signal is present and is applied to the score
Contributes(sig, r, n) ==
    CASE sig = "reputation" -> r.reputation \in {"High", "Low"}
      [] sig = "age" -> r.domain_age_days # NoneNum
                        /\ (r.domain_age_days > 730 \/ r.domain_age_days < 90)
      [] sig = "certainty" -> r.certainty > 0 /\ r.doubt = 0
      [] sig = "doubt" -> r.doubt > 0
      [] sig = "sensationalism" -> r.sensationalism > 0
      [] sig = "sentiment" -> n.sentiment.label = "NEGATIVE" /\ n.sentiment.score > 85
      [] sig = "bias" -> Flagged(n.bias_analysis.label) /\ n.bias_analysis.score # NoneNum
      [] sig = "coherence" -> n.coherence_score # NoneNum

\* the signed adjustment of a contributing signal
SignalAdjustment(sig, r, n) ==
    CASE sig = "reputation" -> IF r.reputation = "High" THEN WEIGHT_REPUTATION
                               ELSE -WEIGHT_REPUTATION
      [] sig = "age" -> IF r.domain_age_days > 730 THEN WEIGHT_AGE ELSE -WEIGHT_AGE
      [] sig = "certainty" -> WEIGHT_CERTAINTY * r.certainty
      [] sig = "doubt" -> -(WEIGHT_DOUBT * r.doubt)
      [] sig = "sensationalism" ->
             -Min(WEIGHT_SENSATIONALISM * r.sensationalism, WEIGHT_SENSATIONALISM * 3)
      [] sig = "sentiment" -> -WEIGHT_NEGATIVE_SENTIMENT
      [] sig = "bias" -> -((WEIGHT_BIAS * (n.bias_analysis.score - 50) * 2) \div 100)
      [] sig = "coherence" -> ((n.coherence_score - 50) * WEIGHT_COHERENCE) \div 100

\* the weight of a contributing signal: its configured weight, times the
\* number of markers for the marker signals, and the size of the adjustment
\* for the capped and the continuous one
SignalWeight(sig, r, n) ==
    CASE sig = "reputation" -> WEIGHT_REPUTATION
      [] sig = "age" -> WEIGHT_AGE
      [] sig = "bias" -> WEIGHT_BIAS
      [] sig = "sentiment" -> WEIGHT_NEGATIVE_SENTIMENT
      [] OTHER -> Abs(SignalAdjustment(sig, r, n))

Contributing(r, n) == {sig \in Signals : Contributes(sig, r, n)}
SumOfAdjustments(r, n) ==
    SetSum([sig \in Signals |-> IF Contributes(sig, r, n) THEN SignalAdjustment(sig, r, n) ELSE 0],
           Contributing(r, n))
SumOfWeights(r, n) ==
    SetSum([sig \in Signals |-> IF Contributes(sig, r, n) THEN SignalWeight(sig, r, n) ELSE 0],
           Contributing(r, n))

\* 0.5 + adjustments / weight_sum when weight_sum > 0 and 0.5 otherwise, clamped
NormalisedScore(adj, ws) ==
    Clamp01(IF ws > 0 THEN <<ws + 2 * adj, 2 * ws>> ELSE Half)

\* C1, as stated: weight_sum is the sum of the weights of exactly the
\* contributing signals and the score is 0.5 + adjustments / weight_sum
\* (0.5 when weight_sum is 0), clamped to [0,1].
C1_WeightSumIsContributingWeights ==
    fusion_out.done =>
        LET r == fusion_in.rule_results
            n == fusion_in.nlp_results
        IN  /\ fusion_out.weight_sum = SumOfWeights(r, n)
            /\ RatEq(fusion_out.score,
                     NormalisedScore(SumOfAdjustments(r, n), SumOfWeights(r, n)))

\* C1, amended: weight_sum is the base 1.0 plus the weights of exactly the
\* contributing signals (absent signals add neither adjustment nor weight),
\* and the score is 0.5 + adjustments / weight_sum, clamped to [0,1].
C1_WeightSumIsBasePlusContributingWeights ==
    fusion_out.done =>
        LET r == fusion_in.rule_results
            n == fusion_in.nlp_results
        IN  /\ fusion_out.weight_sum = BASE_WEIGHT_SUM + SumOfWeights(r, n)
            /\ fusion_out.score_adjustment = SumOfAdjustments(r, n)
            /\ RatEq(fusion_out.score,
                     NormalisedScore(SumOfAdjustments(r, n),
                                     BASE_WEIGHT_SUM + SumOfWeights(r, n)))

\* a call with present and absent signals: reputation and certainty markers
\* present next to doubt markers, no domain age, no coherence score
C1_Witness ==
    /\ fusion_out.done
    /\ fusion_in.rule_results.reputation = "Low"
    /\ fusion_in.rule_results.domain_age_days = NoneNum
    /\ fusion_in.rule_results.certainty > 0
    /\ fusion_in.rule_results.doubt > 0
    /\ fusion_in.nlp_results.coherence_score = NoneNum
    /\ Flagged(fusion_in.nlp_results.bias_analysis.label)
    /\ fusion_out.weight_sum = BASE_WEIGHT_SUM + WEIGHT_REPUTATION
                                 + WEIGHT_DOUBT * fusion_in.rule_results.doubt + WEIGHT_BIAS

----------------------------------------------------------------------------
(* Evidence retrieval: TRECRetriever                                       *)

\* bounds of the model
MaxDocs == 2        \* documents in the corpus
MaxK == 1           \* largest k a caller passes
MaxCalls == 3       \* retrieve_evidence calls in one run
\* the prf_top_docs argument the retriever was constructed with
PrfTopDocs == 1

DEFAULT_K == 10
PRF_EXPANSION_TERMS == 10

\* doc_ids, in ascending (string) order
DocIdsSorted == <<"D1", "D2", "D3">>
DocIds == {DocIdsSorted[i] : i \in 1..Len(DocIdsSorted)}
IdIndex(id) == CHOOSE i \in 1..Len(DocIdsSorted) : DocIdsSorted[i] = id
IdLess(a, b) == IdIndex(a) < IdIndex(b)

\* a text is a sequence of words
DocTexts == {<<"cat">>, <<"the", "catalog", "dog">>}
Claims == {<<"cat">>, <<"the">>, <<"Cats", "dog">>}

\* an optional argument: << >> is None, <<v>> is the value v
NoArg == << >>
KArgs == {NoArg} \cup {<<k>> : k \in 0..MaxK}
PrfArgs == {NoArg, <<FALSE>>}

\* IREngine.preprocess: case folding, stopword removal, stemming.  Its
\* result is the string of the remaining terms; the model keeps the terms.
StopWords == {"the"}
Stem(w) == IF w = "Cats" THEN "cat" ELSE w

RECURSIVE preprocess(_)
preprocess(text) ==
    IF text = << >> THEN << >>
    ELSE IF Head(text) \in StopWords THEN preprocess(Tail(text))
    ELSE <<Stem(Head(text))>> \o preprocess(Tail(text))

SeqToSet(q) == {q[i] : i \in 1..Len(q)}
Count(t, q) == Cardinality({i \in 1..Len(q) : q[i] = t})

\* Python's "term in string" on the preprocessed text: a substring test
IsSubstringOfTerm(t, u) == t = u \/ (t = "cat" /\ u = "catalog")
TermInText(t, terms) == \E i \in 1..Len(terms) : IsSubstringOfTerm(t, terms[i])

\* floor(1000 * ln(1 + (N - df + 0.5) / (df + 0.5))), row N, column df + 1
IdfTable == << <<1386, 287>>,
               <<1791, 693, 182>>,
               <<2079, 980, 470, 133>>,
               <<2302, 1203, 693, 356, 105>>,
               <<2484, 1386, 875, 538, 287, 87>>,
               <<2639, 1540, 1029, 693, 441, 241, 74>> >>
Idf(N, df) == IdfTable[N][df + 1]

\* IREngine.calculate_bm25_score with k1 = 0.9, b = 0.4, in units of 1/1000:
\* sum over the query terms of idf * tf * (k1 + 1) / (tf + k1 * (1 - b + b * dl / avgdl)),
\* avgdl being total_length / corpus_size
RECURSIVE calculate_bm25_score(_, _, _, _, _, _)
calculate_bm25_score(query_terms, doc_terms, doc_length, total_length, doc_freq, corpus_size) ==
    IF query_terms = << >> THEN 0
    ELSE LET t == Head(query_terms)
             tf == Count(t, doc_terms)
             rest == calculate_bm25_score(Tail(query_terms), doc_terms, doc_length,
                                          total_length, doc_freq, corpus_size)
         IN  IF tf = 0 THEN rest
             ELSE rest + (Idf(corpus_size, doc_freq[t]) * 190 * tf * total_length)
                         \div (100 * tf * total_length + 54 * total_length
                               + 36 * doc_length * corpus_size)

\* list.sort(key=score, reverse=True): stable, equal scores keep their order
RECURSIVE InsertByScore(_, _)
InsertByScore(sorted, x) ==
    IF sorted = << >> THEN <<x>>
    ELSE IF Head(sorted).score >= x.score
         THEN <<Head(sorted)>> \o InsertByScore(Tail(sorted), x)
         ELSE <<x>> \o sorted

RECURSIVE SortByScoreDesc(_)
SortByScoreDesc(scores) ==
    IF scores = << >> THEN << >>
    ELSE InsertByScore(SortByScoreDesc(SubSeq(scores, 1, Len(scores) - 1)),
                       scores[Len(scores)])

\* Python's seq[:k]
Slice(q, k) ==
    IF k >= 0 THEN SubSeq(q, 1, Min(k, Len(q)))
    ELSE SubSeq(q, 1, IF Len(q) + k > 0 THEN Len(q) + k ELSE 0)

RECURSIVE SumLengths(_)
SumLengths(docs) ==
    IF docs = << >> THEN 0
    ELSE Len(preprocess(Head(docs).text)) + SumLengths(Tail(docs))

\* the scores kept with "if score >= 0"
RECURSIVE ScoreAll_ZeroScoresKept(_, _, _, _)
ScoreAll_ZeroScoresKept(docs, query_terms, doc_freq, total_length) ==
    IF docs = << >> THEN << >>
    ELSE LET doc_terms == preprocess(Head(docs).text)
             score == calculate_bm25_score(query_terms, doc_terms, Len(doc_terms),
                                           total_length, doc_freq, Len(corpus))
             rest == ScoreAll_ZeroScoresKept(Tail(docs), query_terms, doc_freq, total_length)
         IN  IF score >= 0
             THEN <<[doc_id |-> Head(docs).id, score |-> score]>> \o rest
             ELSE rest

\* _search_in_memory: the (doc_id, score) pairs of the documents scoring
\* above zero, in corpus order
RECURSIVE ScoreAll(_, _, _, _)
ScoreAll(docs, query_terms, doc_freq, total_length) ==
    IF docs = << >> THEN << >>
    ELSE LET doc_terms == preprocess(Head(docs).text)
             score == calculate_bm25_score(query_terms, doc_terms, Len(doc_terms),
                                           total_length, doc_freq, Len(corpus))
             rest == ScoreAll(Tail(docs), query_terms, doc_freq, total_length)
         IN  IF score > 0
             THEN <<[doc_id |-> Head(docs).id, score |-> score]>> \o rest
             ELSE rest

\* the ranks taken from enumerate() without the + 1
search_in_memory_ZeroBasedRank(query, k) ==
    IF corpus = << >> THEN << >>
    ELSE LET query_terms == query
             doc_freq == [t \in SeqToSet(query_terms) |->
                             Cardinality({i \in 1..Len(corpus) :
                                             TermInText(t, preprocess(corpus[i].text))})]
             total_length == SumLengths(corpus)
             scores == SortByScoreDesc(ScoreAll(corpus, query_terms, doc_freq, total_length))
             top_k == Slice(scores, k)
         IN  [i \in 1..Len(top_k) |->
                 [doc_id |-> top_k[i].doc_id, score |-> top_k[i].score, rank |-> i - 1]]

\* TRECRetriever._search_in_memory: the results of the SearchResponse
search_in_memory(query, k) ==
    IF corpus = << >> THEN << >>
    ELSE LET query_terms == query
             doc_freq == [t \in SeqToSet(query_terms) |->
                             Cardinality({i \in 1..Len(corpus) :
                                             TermInText(t, preprocess(corpus[i].text))})]
             total_length == SumLengths(corpus)
             scores == SortByScoreDesc(ScoreAll(corpus, query_terms, doc_freq, total_length))
             top_k == Slice(scores, k)
         IN  [i \in 1..Len(top_k) |->
                 [doc_id |-> top_k[i].doc_id, score |-> top_k[i].score, rank |-> i]]

\* TRECRetriever._get_document_text
MissingText == <<"[Document text not available]">>
get_document_text(doc_id) ==
    IF \E i \in 1..Len(corpus) : corpus[i].id = doc_id
    THEN corpus[CHOOSE i \in 1..Len(corpus) : corpus[i].id = doc_id].text
    ELSE MissingText

\* the terms of the texts, in order of first occurrence, without repetition
RECURSIVE Distinct(_)
Distinct(q) ==
    IF q = << >> THEN << >>
    ELSE LET d == Distinct(SubSeq(q, 1, Len(q) - 1))
         IN  IF q[Len(q)] \in SeqToSet(d) THEN d ELSE Append(d, q[Len(q)])

RECURSIVE Concat(_)
Concat(texts) == IF texts = << >> THEN << >> ELSE Head(texts) \o Concat(Tail(texts))

\* the candidates, most frequent first (ties in order of first occurrence)
RECURSIVE InsertByCount(_, _, _)
InsertByCount(sorted, t, all) ==
    IF sorted = << >> THEN <<t>>
    ELSE IF Count(Head(sorted), all) >= Count(t, all)
         THEN <<Head(sorted)>> \o InsertByCount(Tail(sorted), t, all)
         ELSE <<t>> \o sorted

RECURSIVE SortByCount(_, _)
SortByCount(terms, all) ==
    IF terms = << >> THEN << >>
    ELSE InsertByCount(SortByCount(SubSeq(terms, 1, Len(terms) - 1), all),
                       terms[Len(terms)], all)

\* IREngine.pseudo_relevance_feedback: the query, followed by the most
\* frequent terms of the top documents that the query does not have yet;
\* the query itself when there is no such term
pseudo_relevance_feedback(query, top_docs_texts, num_expansion_terms) ==
    LET all == preprocess(Concat(top_docs_texts))
        have == SeqToSet(preprocess(query))
        fresh == SelectSeq(Distinct(all), LAMBDA t : t \notin have)
        expansion == Slice(SortByCount(fresh, all), num_expansion_terms)
    IN  IF expansion = << >> THEN query ELSE query \o expansion

\* the feedback documents taken from the previous call's result
apply_prf_StaleResults(original_query, top_results) ==
    pseudo_relevance_feedback(original_query,
                              [i \in 1..Len(last_result.evidences) |-> last_result.evidences[i].text],
                              PRF_EXPANSION_TERMS)

\* TRECRetriever._apply_prf
apply_prf(original_query, top_results) ==
    pseudo_relevance_feedback(original_query,
                              [i \in 1..Len(top_results) |-> get_document_text(top_results[i].doc_id)],
                              PRF_EXPANSION_TERMS)

\* the re-search done after every expansion
ExpansionChanged_Always(expanded_query, claim) == TRUE

\* retrieve_evidence: "if expanded_query != claim"
ExpansionChanged(expanded_query, claim) == expanded_query # claim

\* TRECRetriever.retrieve_evidence without its statistics update: the
\* RetrievalResult, and a trace of the ranker runs
retrieve(claim, k_arg, use_prf_arg, enable_prf, prf_top_docs) ==
    LET k == IF k_arg = NoArg \/ k_arg = <<0>> THEN DEFAULT_K ELSE k_arg[1]
        use_prf == IF use_prf_arg # NoArg THEN use_prf_arg[1] ELSE enable_prf
        processed_claim == preprocess(claim)
        response1 == search_in_memory(processed_claim, k)
        tried_prf == use_prf /\ Len(response1) >= prf_top_docs
        expansion == IF tried_prf THEN apply_prf(claim, Slice(response1, prf_top_docs))
                     ELSE claim
        rerank == tried_prf /\ ExpansionChanged(expansion, claim)
        response == IF rerank THEN search_in_memory(preprocess(expansion), k)
                    ELSE response1
        evidences == [i \in 1..Len(response) |->
                         [doc_id |-> response[i].doc_id,
                          text |-> get_document_text(response[i].doc_id),
                          score |-> response[i].score,
                          rank |-> response[i].rank]]
    IN  [result |-> [query |-> claim,
                     evidences |-> evidences,
                     total_retrieved |-> Len(evidences),
                     expanded_query |-> IF tried_prf THEN <<expansion>> ELSE NoArg],
         trace |-> [ranker_runs |-> IF rerank THEN 2 ELSE 1,
                    use_prf |-> use_prf,
                    first_hits |-> Len(response1),
                    expansion |-> expansion]]

NoCall == [claim |-> << >>, k |-> NoArg, use_prf |-> NoArg, made |-> FALSE]
NoResult == [query |-> << >>, evidences |-> << >>, total_retrieved |-> 0,
             expanded_query |-> NoArg]
NoTrace == [ranker_runs |-> 0, use_prf |-> FALSE, first_hits |-> 0, expansion |-> << >>]

\* every corpus of at most MaxDocs documents with distinct doc_ids, in
\* every insertion order
Corpora ==
    UNION {{c \in [1..n -> [id : DocIds, text : DocTexts]] :
               \A i, j \in 1..n : i # j => c[i].id # c[j].id} : n \in 0..MaxDocs}

RetrieverIdle ==
    /\ corpus = << >>
    /\ stats = [queries_processed |-> 0]
    /\ last_call = NoCall
    /\ last_result = NoResult
    /\ last_trace = NoTrace
    /\ first_call = NoCall
    /\ first_result = NoResult
    /\ other_calls = FALSE
    /\ requests = << >>
    /\ FacadeIdle

FusionIdle ==
    /\ fusion_pc = "start"
    /\ fusion_in = [rule_results |-> NoRuleResults, nlp_results |-> NoNlpResults]
    /\ fusion_out = [done |-> FALSE]
    /\ report = NoReport
    /\ prev_run = NoRun

\* a retriever constructed without index (no Pyserini searcher) and with
\* PRF enabled, its corpus loaded
InitRetriever ==
    /\ corpus \in Corpora
    /\ stats = [queries_processed |-> 0]
    /\ last_call = NoCall
    /\ last_result = NoResult
    /\ last_trace = NoTrace
    /\ first_call = NoCall
    /\ first_result = NoResult
    /\ other_calls = FALSE
    /\ requests = << >>
    /\ FacadeIdle
    /\ FusionIdle
    /\ GraphIdle
    /\ BenchIdle

\* retrieve_evidence(claim): k and use_prf left to their defaults
DefaultArgs(call) == call.k = NoArg /\ call.use_prf = NoArg

\* retrieve_evidence(claim, k, use_prf=...), called by a single caller
RetrieveEvidence ==
    /\ stats.queries_processed < MaxCalls
    /\ \E claim \in Claims, k \in KArgs, use_prf \in PrfArgs :
          LET call == [claim |-> claim, k |-> k, use_prf |-> use_prf, made |-> TRUE]
              r == retrieve(claim, k, use_prf, TRUE, PrfTopDocs)
          IN  /\ last_call' = call
              /\ last_result' = r.result
              /\ last_trace' = r.trace
              /\ first_call' = IF ~first_call.made /\ DefaultArgs(call)
                               THEN call ELSE first_call
              /\ first_result' = IF ~first_call.made /\ DefaultArgs(call)
                                 THEN r.result ELSE first_result
              /\ other_calls' = (other_calls \/ (first_call.made /\ call # first_call))
    /\ stats' = [stats EXCEPT !.queries_processed = @ + 1]
    /\ UNCHANGED <<benchVars, corpus, requests, facadeVars, fusionVars, graphVars>>

NextRetriever == RetrieveEvidence

SpecRetriever == InitRetriever /\ [][NextRetriever]_vars

----------------------------------------------------------------------------
(* Retrieval: properties of the result of retrieve_evidence                *)

Evidences == last_result.evidences

\* C3, as stated: the evidences are in descending order of score, and two
\* evidences of equal score are in ascending order of doc_id, whatever the
\* insertion order of the corpus.
C3_TiesInDocIdOrder ==
    last_call.made =>
        \A i, j \in 1..Len(Evidences) :
            i < j => /\ Evidences[i].score >= Evidences[j].score
                     /\ Evidences[i].score = Evidences[j].score
                            => IdLess(Evidences[i].doc_id, Evidences[j].doc_id)

\* C4, as stated: with an explicit k >= 0 (0 included) the result has
\* len(evidences) = total_retrieved and total_retrieved <= k.
C4_AtMostKEvidences ==
    (last_call.made /\ last_call.k # NoArg) =>
        /\ Len(Evidences) = last_result.total_retrieved
        /\ last_result.total_retrieved <= last_call.k[1]

\* C5: the evidences carry the ranks 1, 2, ..., n in list order, also when
\* the result comes from a PRF re-rank.
C5_RanksContiguousFromOne ==
    last_call.made => \A i \in 1..Len(Evidences) : Evidences[i].rank = i

\* a PRF re-rank that returned two evidences
C5_Witness ==
    /\ last_call.made
    /\ last_trace.ranker_runs = 2
    /\ Len(Evidences) >= 2

LastUsePrf == IF last_call.use_prf # NoArg THEN last_call.use_prf[1] ELSE TRUE
\* the k the last call ranks with
LastK == IF last_call.k = NoArg \/ last_call.k = <<0>> THEN DEFAULT_K ELSE last_call.k[1]

\* C7: one call runs the ranker once or twice; twice only if use_prf holds,
\* the first result has at least prf_top_docs documents and the expanded
\* query differs from the claim; an expansion equal to the claim never
\* re-ranks.
C7_AtMostOneRerank ==
    last_call.made =>
        /\ last_trace.ranker_runs \in {1, 2}
        /\ last_trace.ranker_runs = 2 =>
              /\ LastUsePrf
              /\ Len(search_in_memory(preprocess(last_call.claim), LastK)) >= PrfTopDocs
              /\ last_result.expanded_query # NoArg
              /\ last_result.expanded_query # <<last_call.claim>>
        /\ last_result.expanded_query = <<last_call.claim>> => last_trace.ranker_runs = 1

\* PRF ran on a full first result and found no new term: no re-rank
C7_Witness ==
    /\ last_call.made
    /\ LastUsePrf
    /\ last_trace.first_hits >= PrfTopDocs
    /\ last_result.expanded_query = <<last_call.claim>>
    /\ last_trace.ranker_runs = 1

----------------------------------------------------------------------------
(* The API server: app.run(threaded=True) handles every request in a       *)
(* thread of its own; all of them call the one module-level trec_retriever *)

MaxRequests == 2    \* requests handled concurrently

Requests == 1..MaxRequests

\* the corpus the server gives its retriever (TREC_DEMO_CORPUS)
DemoCorpus == <<[id |-> "D1", text |-> <<"cat">>],
                [id |-> "D2", text |-> <<"the", "catalog", "dog">>]>>

\* k = 5 in verify_endpoint
VERIFY_K == 5

IdleRequest == [pc |-> "idle", result |-> NoResult, loaded |-> 0]

\* the server after its first request: trec_retriever constructed with
\* enable_prf=False and the demo corpus
InitServer ==
    /\ corpus = DemoCorpus
    /\ stats = [queries_processed |-> 0]
    /\ requests = [t \in Requests |-> IdleRequest]
    /\ last_call = NoCall
    /\ last_result = NoResult
    /\ last_trace = NoTrace
    /\ first_call = NoCall
    /\ first_result = NoResult
    /\ other_calls = FALSE
    /\ FacadeIdle
    /\ FusionIdle
    /\ GraphIdle
    /\ BenchIdle

\* retrieve_evidence up to "search_time = ...": the evidences are built
Search(t) ==
    /\ requests[t].pc = "idle"
    /\ \E claim \in Claims :
          requests' = [requests EXCEPT ![t] =
                          [pc |-> "searched",
                           result |-> retrieve(claim, <<VERIFY_K>>, NoArg, FALSE, PrfTopDocs).result,
                           loaded |-> 0]]
    /\ UNCHANGED <<benchVars, corpus, stats, last_call, last_result, last_trace, first_call,
                   first_result, other_calls, facadeVars, fusionVars, graphVars>>

\* self.stats["queries_processed"] += 1, first half: the value is read
LoadCounter(t) ==
    /\ requests[t].pc = "searched"
    /\ requests' = [requests EXCEPT ![t].pc = "loaded",
                                    ![t].loaded = stats.queries_processed]
    /\ UNCHANGED <<benchVars, corpus, stats, last_call, last_result, last_trace, first_call,
                   first_result, other_calls, facadeVars, fusionVars, graphVars>>

\* second half: the incremented value is stored, and the result returned
StoreCounter(t) ==
    /\ requests[t].pc = "loaded"
    /\ stats' = [stats EXCEPT !.queries_processed = requests[t].loaded + 1]
    /\ requests' = [requests EXCEPT ![t].pc = "done"]
    /\ UNCHANGED <<benchVars, corpus, last_call, last_result, last_trace, first_call,
                   first_result, other_calls, facadeVars, fusionVars, graphVars>>

NextServer ==
    \E t \in Requests :
        \/ Search(t)
        \/ LoadCounter(t)
        \/ StoreCounter(t)

SpecServer == InitServer /\ [][NextServer]_vars

Completed == {t \in Requests : requests[t].pc = "done"}
InFlight == {t \in Requests : requests[t].pc \in {"searched", "loaded"}}

\* C2, as stated: no increment of queries_processed is lost; once no call
\* is in flight the counter equals the number of completed calls.
C2_NoLostIncrement ==
    InFlight = {} => stats.queries_processed = Cardinality(Completed)

----------------------------------------------------------------------------
(* GraphRAG: the graph-memory context scorer.                              *)
(* A string is a sequence of characters; the characters that matter to a   *)
(* SPARQL string literal have names: BS is the backslash, DQ and SQ the    *)
(* double and single quote, NL, CR and TAB the control characters, BAR the *)
(* "|" of a regular expression.  A score is an integer in hundredths.      *)

MaxReports == 2     \* reports in the knowledge graph

HISTORY_LIMIT == 10         \* LIMIT 10 of _get_source_history_data
SOURCE_HISTORY_LIMIT == 5   \* LIMIT 5 of _get_source_history
SIMILAR_LIMIT == 3          \* LIMIT 3 of _find_similar_claims
MIN_KEYWORD_LEN == 3        \* len(k) > 3
HISTORY_SATURATION == 5     \* count / 5
PATTERN_SATURATION == 3     \* len(scores) / 3

\* reports a graph can hold; a graph lists its reports most recent first
KnownReports ==
    { [uri |-> "r1", url |-> <<"a", "b">>, content |-> <<"f", "a", "k", "e", "s">>, score |-> 20],
      [uri |-> "r2", url |-> <<"a", "DQ">>, content |-> <<"h", "o", "a", "x", "DQ">>, score |-> 90],
      [uri |-> "r3", url |-> <<"b">>, content |-> <<"t", "r", "u", "e">>, score |-> 50] }

RECURSIVE SeqsUpTo(_, _)
SeqsUpTo(S, n) ==
    IF n = 0 THEN {<< >>}
    ELSE LET shorter == SeqsUpTo(S, n - 1)
         IN  shorter \cup {Append(q, x) : q \in shorter, x \in S}

Graphs == SeqsUpTo(KnownReports, MaxReports)

Domains ==
    { << >>, <<"a">>, <<"b">>, <<"a", "b">>, <<"c">>, <<"a", "DQ">>, <<"BS", "n">>,
      <<"NL", "a">>, <<"SQ", "TAB", "CR">> }

KeywordLists ==
    { << >>,
      << <<"a", "b">> >>,
      << <<"f", "a", "k", "e">> >>,
      << <<"t", "r", "u">>, <<"F", "a", "k", "e">> >>,
      << <<"h", "o", "a", "x", "DQ">>, <<"n", "e", "w", "s">> >> }

\* str.replace(old, new) for a one-character old
RECURSIVE Replace(_, _, _)
Replace(value, old, new) ==
    IF value = << >> THEN << >>
    ELSE (IF Head(value) = old THEN new ELSE <<Head(value)>>) \o Replace(Tail(value), old, new)

escape_sparql_string(value) ==
    IF value = << >> THEN << >>
    ELSE LET r1 == Replace(value, "BS", <<"BS", "BS">>)
             r2 == Replace(r1, "DQ", <<"BS", "DQ">>)
             r3 == Replace(r2, "SQ", <<"BS", "SQ">>)
             r4 == Replace(r3, "NL", <<"BS", "n">>)
             r5 == Replace(r4, "CR", <<"BS", "r">>)
         IN  Replace(r5, "TAB", <<"BS", "t">>)

\* "|".join(parts)
RECURSIVE Join(_)
Join(parts) ==
    IF parts = << >> THEN << >>
    ELSE IF Len(parts) = 1 THEN parts[1]
    ELSE parts[1] \o <<"BAR">> \o Join(Tail(parts))

(* The graph store reading a query: the text between the double quotes of  *)
(* the pattern is a SPARQL string literal.  A backslash starts an escape   *)
(* sequence; a bare double quote ends the literal, a bare line break is    *)
(* not allowed in it.                                                      *)
Escapable == {"BS", "DQ", "SQ", "n", "r", "t"}

RECURSIVE LiteralIntact(_)
LiteralIntact(text) ==
    IF text = << >> THEN TRUE
    ELSE IF Head(text) = "BS"
         THEN Len(text) >= 2 /\ text[2] \in Escapable /\ LiteralIntact(Tail(Tail(text)))
    ELSE IF Head(text) \in {"DQ", "NL", "CR"} THEN FALSE
    ELSE LiteralIntact(Tail(text))

Unescaped(c) ==
    CASE c = "n" -> "NL"
      [] c = "r" -> "CR"
      [] c = "t" -> "TAB"
      [] OTHER -> c

RECURSIVE LiteralValue(_)
LiteralValue(text) ==
    IF text = << >> THEN << >>
    ELSE IF Head(text) = "BS" /\ Len(text) >= 2
         THEN <<Unescaped(text[2])>> \o LiteralValue(Tail(Tail(text)))
    ELSE <<Head(text)>> \o LiteralValue(Tail(text))

\* CONTAINS(STR(?url), "...")
Contains(s, sub) ==
    \E i \in 0..(Len(s) - Len(sub)) : SubSeq(s, i + 1, i + Len(sub)) = sub

Lower(c) == IF c = "F" THEN "f" ELSE c
LowerSeq(s) == [i \in 1..Len(s) |-> Lower(s[i])]

RECURSIVE Alternatives(_, _)
Alternatives(pattern, current) ==
    IF pattern = << >> THEN <<current>>
    ELSE IF Head(pattern) = "BAR" THEN <<current>> \o Alternatives(Tail(pattern), << >>)
    ELSE Alternatives(Tail(pattern), Append(current, Head(pattern)))

\* REGEX(?content, "...", "i")
RegexMatches(content, pattern) ==
    LET alts == Alternatives(pattern, << >>)
    IN  \E i \in 1..Len(alts) : Contains(LowerSeq(content), LowerSeq(alts[i]))

\* the history query without its FILTER
SourceHistoryRows_AnyUrl(reports, literal, limit) == Slice(reports, limit)
\* the rows of the history query: the reports whose url contains the literal
SourceHistoryRows(reports, literal, limit) ==
    LET UrlContains(r) == Contains(r.url, LiteralValue(literal))
    IN  Slice(SelectSeq(reports, UrlContains), limit)

\* the rows of the similar-claims query
SimilarClaimRows(reports, literal, limit) ==
    LET ContentMatches(r) == RegexMatches(r.content, LiteralValue(literal))
    IN  Slice(SelectSeq(reports, ContentMatches), limit)

RECURSIVE SumScores(_)
SumScores(rows) == IF rows = << >> THEN 0 ELSE Head(rows).score + SumScores(Tail(rows))

\* sum(scores) / len(scores), scores in hundredths
MeanScore(rows) == Reduced(<<SumScores(rows), 100 * Len(rows)>>)

Query(kind, embedded, literal, failed) ==
    [kind |-> kind, embedded |-> embedded, literal |-> literal, failed |-> failed]

NoHistoryData == [raised |-> FALSE, count |-> 0, avg_score |-> Half, queries |-> << >>]

\* _get_source_history_data without its try/except
get_source_history_data_NoExcept(domain, fails) ==
    IF domain = << >> THEN NoHistoryData
    ELSE LET safe_domain == escape_sparql_string(domain)
             q == Query("history", domain, safe_domain, fails)
             rows == SourceHistoryRows(om.reports, safe_domain, HISTORY_LIMIT)
         IN  IF fails THEN [NoHistoryData EXCEPT !.raised = TRUE, !.queries = <<q>>]
             ELSE [raised |-> FALSE, count |-> Len(rows),
                   avg_score |-> IF rows = << >> THEN Half ELSE MeanScore(rows),
                   queries |-> <<q>>]
\* _get_source_history_data; fails: combined.query raises
get_source_history_data(domain, fails) ==
    IF domain = << >> THEN NoHistoryData
    ELSE LET safe_domain == escape_sparql_string(domain)
             q == Query("history", domain, safe_domain, fails)
             rows == SourceHistoryRows(om.reports, safe_domain, HISTORY_LIMIT)
         IN  IF fails THEN [NoHistoryData EXCEPT !.queries = <<q>>]
             ELSE IF rows = << >> THEN [NoHistoryData EXCEPT !.queries = <<q>>]
             ELSE [raised |-> FALSE, count |-> Len(rows), avg_score |-> MeanScore(rows),
                   queries |-> <<q>>]

NoSimilarClaims == [raised |-> FALSE, text |-> FALSE, uris |-> << >>, scores |-> << >>,
                    queries |-> << >>]

LongEnough(k) == Len(k) > MIN_KEYWORD_LEN
EscapeAll(kws) == [i \in 1..Len(kws) |-> escape_sparql_string(kws[i])]

\* _find_similar_claims; scores holds the rows, whose score is the entry
find_similar_claims(keywords, fails) ==
    IF keywords = << >> THEN NoSimilarClaims
    ELSE LET clean_kws == SelectSeq(keywords, LongEnough)
             regex_pattern == Join(EscapeAll(clean_kws))
             q == Query("similar", Join(clean_kws), regex_pattern, fails)
             rows == SimilarClaimRows(om.reports, regex_pattern, SIMILAR_LIMIT)
         IN  IF clean_kws = << >> THEN NoSimilarClaims
             ELSE IF fails \/ rows = << >> THEN [NoSimilarClaims EXCEPT !.queries = <<q>>]
             ELSE [raised |-> FALSE, text |-> TRUE,
                   uris |-> [i \in 1..Len(rows) |-> rows[i].uri],
                   scores |-> rows, queries |-> <<q>>]

\* a * b and a + b on rationals
RatMul(a, b) == Reduced(<<a[1] * b[1], a[2] * b[2]>>)
RatAdd(a, b) == Reduced(<<a[1] * b[2] + b[1] * a[2], a[2] * b[2]>>)

HISTORY_WEIGHT == <<7, 10>>             \* 0.7
PATTERN_WEIGHT == <<3, 10>>             \* 0.3
HISTORY_CONFIDENCE_WEIGHT == <<6, 10>>  \* 0.6
PATTERN_CONFIDENCE_WEIGHT == <<4, 10>>  \* 0.4
HISTORY_ONLY_FACTOR == <<8, 10>>        \* 0.8
PATTERN_ONLY_FACTOR == <<5, 10>>        \* 0.5

\* n / saturation without the min
Saturating_NoCap(n, saturation) == <<n, saturation>>
\* min(1.0, n / saturation)
Saturating(n, saturation) == <<Min(n, saturation), saturation>>

DefaultContextScore ==
    [raised |-> FALSE, history_score |-> Half, pattern_score |-> Half, combined_score |-> Half,
     confidence |-> Zero, has_history |-> FALSE, history_count |-> 0, similar_count |-> 0]

RaisedContextScore == [DefaultContextScore EXCEPT !.raised = TRUE]

\* step 3 with the two weights exchanged
CombineContextScore_WeightsSwapped(result, history_confidence, pattern_confidence) ==
    IF result.has_history /\ result.similar_count > 0
    THEN [result EXCEPT
            !.combined_score = RatAdd(RatMul(PATTERN_WEIGHT, result.history_score),
                                      RatMul(HISTORY_WEIGHT, result.pattern_score)),
            !.confidence = RatAdd(RatMul(HISTORY_CONFIDENCE_WEIGHT, history_confidence),
                                  RatMul(PATTERN_CONFIDENCE_WEIGHT, pattern_confidence))]
    ELSE IF result.has_history
    THEN [result EXCEPT !.combined_score = result.history_score,
                        !.confidence = RatMul(history_confidence, HISTORY_ONLY_FACTOR)]
    ELSE IF result.similar_count > 0
    THEN [result EXCEPT !.combined_score = result.pattern_score,
                        !.confidence = RatMul(pattern_confidence, PATTERN_ONLY_FACTOR)]
    ELSE [result EXCEPT !.combined_score = Half, !.confidence = Zero]
\* step 3 of compute_context_score
CombineContextScore(result, history_confidence, pattern_confidence) ==
    IF result.has_history /\ result.similar_count > 0
    THEN [result EXCEPT
            !.combined_score = RatAdd(RatMul(HISTORY_WEIGHT, result.history_score),
                                      RatMul(PATTERN_WEIGHT, result.pattern_score)),
            !.confidence = RatAdd(RatMul(HISTORY_CONFIDENCE_WEIGHT, history_confidence),
                                  RatMul(PATTERN_CONFIDENCE_WEIGHT, pattern_confidence))]
    ELSE IF result.has_history
    THEN [result EXCEPT !.combined_score = result.history_score,
                        !.confidence = RatMul(history_confidence, HISTORY_ONLY_FACTOR)]
    ELSE IF result.similar_count > 0
    THEN [result EXCEPT !.combined_score = result.pattern_score,
                        !.confidence = RatMul(pattern_confidence, PATTERN_ONLY_FACTOR)]
    ELSE [result EXCEPT !.combined_score = Half, !.confidence = Zero]

\* returns the ContextScore and the queries that were run
compute_context_score(domain, keywords, history_fails, similar_fails) ==
    IF ~om.present THEN [result |-> DefaultContextScore, queries |-> << >>]
    ELSE
    LET history_data == get_source_history_data(domain, history_fails)
        similar_result == IF keywords # << >> THEN find_similar_claims(keywords, similar_fails)
                          ELSE NoSimilarClaims
        scores == similar_result.scores
        with_history ==
            IF history_data.count > 0
            THEN [DefaultContextScore EXCEPT !.history_score = history_data.avg_score,
                                             !.has_history = TRUE,
                                             !.history_count = history_data.count]
            ELSE DefaultContextScore
        history_confidence ==
            IF history_data.count > 0 THEN Saturating(history_data.count, HISTORY_SATURATION)
            ELSE Zero
        with_pattern ==
            IF scores # << >>
            THEN [with_history EXCEPT !.pattern_score = MeanScore(scores),
                                      !.similar_count = Len(scores)]
            ELSE with_history
        pattern_confidence ==
            IF scores # << >> THEN Saturating(Len(scores), PATTERN_SATURATION) ELSE Zero
    IN  IF history_data.raised THEN [result |-> RaisedContextScore, queries |-> history_data.queries]
        ELSE IF similar_result.raised
        THEN [result |-> RaisedContextScore,
              queries |-> history_data.queries \o similar_result.queries]
        ELSE [result |-> CombineContextScore(with_pattern, history_confidence, pattern_confidence),
              queries |-> history_data.queries \o similar_result.queries]

NoSourceHistory == [kind |-> "empty", count |-> 0, avg_score |-> Half, queries |-> << >>]

\* what _get_source_history does with the rows of its query
SourceHistorySummary(domain, literal, rows, fails) ==
    LET q == Query("history", domain, literal, fails)
    IN  IF fails THEN [NoSourceHistory EXCEPT !.queries = <<q>>]
        ELSE IF rows = << >> THEN [NoSourceHistory EXCEPT !.kind = "no evaluations", !.queries = <<q>>]
        ELSE [kind |-> "summary", count |-> Len(rows), avg_score |-> MeanScore(rows),
              queries |-> <<q>>]

\* _get_source_history of syscred/graph_rag.py
get_source_history(domain, fails) ==
    IF domain = << >> THEN NoSourceHistory
    ELSE LET safe_domain == escape_sparql_string(domain)
         IN  SourceHistorySummary(domain, safe_domain,
                                  SourceHistoryRows(om.reports, safe_domain, SOURCE_HISTORY_LIMIT),
                                  fails)

\* _get_source_history of SysCRED_v2.1_Update/graph_rag.py: """...""" % domain.
\* A query whose literal is not intact does not say what its author wrote:
\* the store rejects it, or runs it without the filter the literal was in.
get_source_history_v21(domain, fails) ==
    IF domain = << >> THEN NoSourceHistory
    ELSE IF LiteralIntact(domain)
    THEN SourceHistorySummary(domain, domain,
                              SourceHistoryRows(om.reports, domain, SOURCE_HISTORY_LIMIT), fails)
    ELSE SourceHistorySummary(domain, domain, Slice(om.reports, SOURCE_HISTORY_LIMIT), fails)

\* get_context of syscred/graph_rag.py
get_context(domain, keywords, history_fails, similar_fails) ==
    IF ~om.present THEN [result |-> [graph_context |-> "No ontology manager available."],
                         queries |-> << >>]
    ELSE LET source_history == get_source_history(domain, history_fails)
             similar_result == IF keywords # << >>
                               THEN find_similar_claims(keywords, similar_fails)
                               ELSE NoSimilarClaims
             parts == (IF source_history.kind # "empty" THEN 1 ELSE 0)
                      + (IF similar_result.text THEN 1 ELSE 0)
         IN  [result |-> [context_parts |-> parts,
                          source_history |-> [kind |-> source_history.kind,
                                              count |-> source_history.count,
                                              avg_score |-> source_history.avg_score],
                          similar_uris |-> IF similar_result.text THEN similar_result.uris
                                           ELSE << >>],
              queries |-> source_history.queries \o similar_result.queries]

\* get_context of SysCRED_v2.1_Update/graph_rag.py
get_context_v21(domain, fails) ==
    IF ~om.present THEN [result |-> [graph_context |-> "No ontology manager available."],
                         queries |-> << >>]
    ELSE LET source_history == get_source_history_v21(domain, fails)
         IN  [result |-> [context_parts |-> IF source_history.kind # "empty" THEN 1 ELSE 0,
                          source_history |-> [kind |-> source_history.kind,
                                              count |-> source_history.count,
                                              avg_score |-> source_history.avg_score]],
              queries |-> source_history.queries]

InitGraph ==
    /\ om \in {NoOm} \cup {[present |-> TRUE, reports |-> g] : g \in Graphs}
    /\ ctx_call = NoCtxCall
    /\ ctx_result = NoCtxResult
    /\ queries = << >>
    /\ RetrieverIdle
    /\ BenchIdle
    /\ FusionIdle

CtxCall(op, domain, keywords, history_fails, similar_fails) ==
    [op |-> op, domain |-> domain, keywords |-> keywords,
     history_fails |-> history_fails, similar_fails |-> similar_fails]

ComputeContextScore ==
    /\ ~ctx_result.done
    /\ \E domain \in Domains, keywords \in KeywordLists, history_fails, similar_fails \in BOOLEAN :
           LET out == compute_context_score(domain, keywords, history_fails, similar_fails)
           IN  /\ ctx_call' = CtxCall("compute_context_score", domain, keywords,
                                      history_fails, similar_fails)
               /\ ctx_result' = [done |-> TRUE, value |-> out.result]
               /\ queries' = out.queries
               /\ UNCHANGED <<benchVars, om, retrieverVars, fusionVars>>

GetContext ==
    /\ ~ctx_result.done
    /\ \E domain \in Domains, keywords \in KeywordLists, history_fails, similar_fails \in BOOLEAN :
           LET out == get_context(domain, keywords, history_fails, similar_fails)
           IN  /\ ctx_call' = CtxCall("get_context", domain, keywords, history_fails, similar_fails)
               /\ ctx_result' = [done |-> TRUE, value |-> out.result]
               /\ queries' = out.queries
               /\ UNCHANGED <<benchVars, om, retrieverVars, fusionVars>>

GetContextV21 ==
    /\ ~ctx_result.done
    /\ \E domain \in Domains, fails \in BOOLEAN :
           LET out == get_context_v21(domain, fails)
           IN  /\ ctx_call' = CtxCall("get_context_v21", domain, << >>, fails, FALSE)
               /\ ctx_result' = [done |-> TRUE, value |-> out.result]
               /\ queries' = out.queries
               /\ UNCHANGED <<benchVars, om, retrieverVars, fusionVars>>

\* the caller reads the returned dict before it makes its next call
ReadContext ==
    /\ ctx_result.done
    /\ ctx_call' = NoCtxCall
    /\ ctx_result' = NoCtxResult
    /\ queries' = << >>
    /\ UNCHANGED <<benchVars, om, retrieverVars, fusionVars>>

NextGraph ==
    \/ ComputeContextScore
    \/ GetContext
    \/ GetContextV21
    \/ ReadContext

SpecGraph == InitGraph /\ [][NextGraph]_vars

\* the last call was compute_context_score
Scored == ctx_call.op = "compute_context_score" /\ ctx_result.done
ContextScore == ctx_result.value

QueryFailed(kind) == \E i \in 1..Len(queries) : queries[i].kind = kind /\ queries[i].failed

\* C8, as stated: every string a GraphRAG query embeds in a string literal
\* is escaped first: the literal stays one literal, and its value is the
\* string the caller gave.
C8_EveryEmbeddedStringEscaped ==
    \A i \in 1..Len(queries) :
        /\ LiteralIntact(queries[i].literal)
        /\ LiteralValue(queries[i].literal) = queries[i].embedded

\* the domain has no prior report: no report's url contains it
NoPriorReports(domain) == \A i \in 1..Len(om.reports) : ~Contains(om.reports[i].url, domain)

\* no report's content matches one of the keywords
NoMatchingClaims(keywords) ==
    \A i \in 1..Len(om.reports), j \in 1..Len(keywords) :
        ~RegexMatches(om.reports[i].content, keywords[j])

NoSupportingData ==
    \/ ~om.present
    \/ NoPriorReports(ctx_call.domain) /\ NoMatchingClaims(ctx_call.keywords)

\* C9: compute_context_score for a domain with zero prior reports and no
\* matching similar claims, or without an ontology manager, returns
\* combined_score 0.5 and confidence 0.0.
C9_NeutralWithoutData ==
    (Scored /\ NoSupportingData)
        => (ContextScore.combined_score = Half /\ ContextScore.confidence = Zero)

\* a graph with reports, a domain and long keywords that match none of them
C9_Witness ==
    /\ Scored /\ om.present /\ om.reports # << >>
    /\ ctx_call.domain # << >>
    /\ \E j \in 1..Len(ctx_call.keywords) : LongEnough(ctx_call.keywords[j])
    /\ ~ctx_call.history_fails /\ ~ctx_call.similar_fails
    /\ Len(queries) = 2
    /\ NoSupportingData
    /\ ContextScore.combined_score = Half /\ ContextScore.confidence = Zero

\* C10: a graph query that raises during compute_context_score does not
\* reach the caller; the lookup that failed counts as no data, and when
\* both lookups fail the result is the neutral default.
C10_QueryErrorIsNoData ==
    Scored =>
        /\ ~ContextScore.raised
        /\ QueryFailed("history") =>
              (ContextScore.history_count = 0 /\ ~ContextScore.has_history
                  /\ ContextScore.history_score = Half)
        /\ QueryFailed("similar") =>
              (ContextScore.similar_count = 0 /\ ContextScore.pattern_score = Half)
        /\ (QueryFailed("history") /\ QueryFailed("similar")) =>
              (ContextScore.combined_score = Half /\ ContextScore.confidence = Zero)

\* both queries raise on a graph that holds reports for the domain and for
\* the keywords
C10_Witness ==
    /\ Scored /\ om.present
    /\ QueryFailed("history") /\ QueryFailed("similar")
    /\ ~NoPriorReports(ctx_call.domain)
    /\ ~NoMatchingClaims(ctx_call.keywords)
    /\ ~ContextScore.raised
    /\ ContextScore.combined_score = Half /\ ContextScore.confidence = Zero

\* the reports the two lookups of the last call should have found
HistoryMatches ==
    LET Matches(r) == Contains(r.url, ctx_call.domain)
    IN  SelectSeq(om.reports, Matches)
PatternMatches ==
    LET Matches(r) == \E j \in 1..Len(ctx_call.keywords) :
                          /\ LongEnough(ctx_call.keywords[j])
                          /\ RegexMatches(r.content, ctx_call.keywords[j])
    IN  SelectSeq(om.reports, Matches)

HasHistoryData == Scored /\ ContextScore.has_history
HasPatternData == Scored /\ ContextScore.similar_count > 0

\* 0.7 * h + 0.3 * p
SevenThreeMix(h, p) == Reduced(<<7 * h[1] * p[2] + 3 * p[1] * h[2], 10 * h[2] * p[2]>>)

\* C11: combined_score is 0.7 * history_score + 0.3 * pattern_score when
\* both history and pattern data exist, history_score when only history
\* exists, pattern_score when only pattern data exists.
C11_CombinedScoreBlend ==
    Scored =>
        /\ (HasHistoryData /\ HasPatternData) =>
              RatEq(ContextScore.combined_score,
                    SevenThreeMix(ContextScore.history_score, ContextScore.pattern_score))
        /\ (HasHistoryData /\ ~HasPatternData) =>
              RatEq(ContextScore.combined_score, ContextScore.history_score)
        /\ (~HasHistoryData /\ HasPatternData) =>
              RatEq(ContextScore.combined_score, ContextScore.pattern_score)

\* both lookups found reports, and their mean scores differ
C11_Witness ==
    /\ Scored /\ HasHistoryData /\ HasPatternData
    /\ Len(HistoryMatches) > 0 /\ Len(PatternMatches) > 0
    /\ ~RatEq(ContextScore.history_score, ContextScore.pattern_score)
    /\ RatEq(ContextScore.history_score, MeanScore(HistoryMatches))
    /\ RatEq(ContextScore.combined_score,
             SevenThreeMix(ContextScore.history_score, ContextScore.pattern_score))

----------------------------------------------------------------------------
(* Graphs long enough for the confidence to saturate: up to MaxDeepReports *)
(* reports of two kinds                                                    *)

MaxDeepReports == 6

DeepReports == {r \in KnownReports : r.uri \in {"r1", "r3"}}

InitGraphDeep ==
    /\ om \in {[present |-> TRUE, reports |-> g] : g \in SeqsUpTo(DeepReports, MaxDeepReports)}
    /\ ctx_call = NoCtxCall
    /\ ctx_result = NoCtxResult
    /\ queries = << >>
    /\ RetrieverIdle
    /\ BenchIdle
    /\ FusionIdle

SpecGraphDeep == InitGraphDeep /\ [][NextGraph]_vars

\* min(1, n / 5) and min(1, n / 3)
HistoryConfidence == <<Min(ContextScore.history_count, 5), 5>>
PatternConfidence == <<Min(ContextScore.similar_count, 3), 3>>

\* C12: the confidence grows linearly with the number of data points and
\* saturates, history at 5 reports and pattern at 3 matches; it is
\* multiplied by 0.8 when only history contributes and by 0.5 when only
\* patterns contribute, and it lies in [0,1] whatever the graph holds.
C12_ConfidenceSaturates ==
    Scored =>
        /\ HasHistoryData => ContextScore.history_count = Min(Len(HistoryMatches), HISTORY_LIMIT)
        /\ HasPatternData => ContextScore.similar_count = Min(Len(PatternMatches), SIMILAR_LIMIT)
        /\ (HasHistoryData /\ ~HasPatternData) =>
              RatEq(ContextScore.confidence, <<8 * HistoryConfidence[1], 10 * HistoryConfidence[2]>>)
        /\ (~HasHistoryData /\ HasPatternData) =>
              RatEq(ContextScore.confidence, <<5 * PatternConfidence[1], 10 * PatternConfidence[2]>>)
        /\ RatLeq(Zero, ContextScore.confidence)
        /\ RatLeq(ContextScore.confidence, One)

\* more than five reports of the domain and no similar claim: 0.8 * 1.0
C12_Witness ==
    /\ Scored /\ HasHistoryData /\ ~HasPatternData
    /\ Len(HistoryMatches) > 5
    /\ ContextScore.history_count > 5
    /\ RatEq(ContextScore.confidence, <<4, 5>>)

----------------------------------------------------------------------------
(* The adjustment trace of a report: detailsScore.adjustments              *)

Reported == fusion_out.done /\ report.done

FactorOf(sig) ==
    CASE sig = "reputation" -> "Source Reputation"
      [] sig = "age" -> "Domain Age"
      [] sig = "certainty" -> "Certainty Markers"
      [] sig = "doubt" -> "Doubt Markers"
      [] sig = "sensationalism" -> "Sensationalism"
      [] sig = "sentiment" -> "Strong Negative Sentiment"
      [] sig = "bias" -> "Potential Bias"
      [] sig = "coherence" -> "Coherence (Simulated)"

RecordsOf(sig) ==
    {i \in 1..Len(report.adjustments) : report.adjustments[i].factor = FactorOf(sig)}

InputContributing == Contributing(fusion_in.rule_results, fusion_in.nlp_results)

\* C13: with no signal present the score is 0.5 and the trace is empty;
\* with exactly one signal present, a negative one, the score is strictly
\* below 0.5 and the trace has exactly one record.
C13_OneNegativeSignal ==
    Reported =>
        /\ InputContributing = {} =>
              (RatEq(fusion_out.score, Half) /\ report.adjustments = << >>)
        /\ \A sig \in Signals :
              (/\ InputContributing = {sig}
               /\ SignalAdjustment(sig, fusion_in.rule_results, fusion_in.nlp_results) < 0)
              => (RatLess(fusion_out.score, Half) /\ Len(report.adjustments) = 1)

\* a low source reputation and nothing else
C13_Witness ==
    /\ Reported
    /\ InputContributing = {"reputation"}
    /\ fusion_in.rule_results.reputation = "Low"
    /\ RatLess(fusion_out.score, Half)
    /\ Len(report.adjustments) = 1
    /\ report.adjustments[1].factor = "Source Reputation"

\* C14: the trace holds exactly one record for each signal that contributed
\* to the score, and no record for a signal that did not.
C14_TraceMatchesContributions ==
    Reported =>
        /\ \A sig \in Signals :
              Cardinality(RecordsOf(sig)) = IF sig \in InputContributing THEN 1 ELSE 0
        /\ Len(report.adjustments) = Cardinality(InputContributing)

\* doubt markers next to certainty markers, a new domain, a flagged bias,
\* and a source of medium reputation that adds nothing
C14_Witness ==
    /\ Reported
    /\ fusion_in.rule_results.reputation = "Medium"
    /\ fusion_in.rule_results.certainty > 0
    /\ fusion_in.rule_results.doubt > 0
    /\ InputContributing = {"age", "doubt", "bias"}
    /\ Len(report.adjustments) = 3

\* C15: the label of a report is decided by the final score alone, through
\* the fixed cut-offs: above 0.75, above 0.55, above 0.45, above 0.25, and
\* the lowest label otherwise; equal scores get equal labels.
C15_LabelIsStepFunctionOfScore ==
    Reported =>
        LET x == fusion_out.score
            Above(c) == RatLess(<<c, 100>>, x)
        IN  /\ (report.label = "ELEVEE") <=> Above(75)
            /\ (report.label = "MOYENNE a ELEVEE") <=> (Above(55) /\ ~Above(75))
            /\ (report.label = "MOYENNE") <=> (Above(45) /\ ~Above(55))
            /\ (report.label = "FAIBLE a MOYENNE") <=> (Above(25) /\ ~Above(45))
            /\ (report.label = "FAIBLE") <=> ~Above(25)

\* a score between two cut-offs that is not the neutral 0.5
C15_Witness ==
    /\ Reported
    /\ RatLess(<<55, 100>>, fusion_out.score)
    /\ RatLeq(fusion_out.score, <<75, 100>>)
    /\ report.label = "MOYENNE a ELEVEE"
    /\ Len(report.adjustments) >= 2

----------------------------------------------------------------------------
(* Successive calls of verify_information, each taken as a whole.  What    *)
(* the collaborators answer for an input (the external data, the           *)
(* sentiment pipeline, the bias model) is chosen per call; the coherence   *)
(* score is drawn by nlp_analysis itself, from np.random.rand().           *)

RunRuleResults ==
    { NoRuleResults,
      [NoRuleResults EXCEPT !.reputation = "Low", !.doubt = 1],
      [NoRuleResults EXCEPT !.reputation = "High", !.domain_age_days = 1500] }

RunSentiments == {[label |-> "POSITIVE", score |-> 99], [label |-> "NEGATIVE", score |-> 99]}

RunBiasResults == {b \in BiasResults : b.score \in {40, 80}}

RandomCoherences == Coherences \ {NoneNum}

VerifyInformation ==
    \E r \in RunRuleResults, sentiment \in RunSentiments, bias \in RunBiasResults,
       coherence \in RandomCoherences :
        LET n == [sentiment |-> sentiment, bias_analysis |-> bias, coherence_score |-> coherence]
            out == calculate_overall_score(r, n)
        IN  /\ fusion_in' = [rule_results |-> r, nlp_results |-> n]
            /\ fusion_out' = out
            /\ report' = generate_report(r, n, out.score)
            /\ prev_run' = IF report.done
                           THEN [done |-> TRUE,
                                 rule_results |-> fusion_in.rule_results,
                                 sentiment |-> fusion_in.nlp_results.sentiment,
                                 bias_analysis |-> fusion_in.nlp_results.bias_analysis,
                                 score |-> fusion_out.score]
                           ELSE prev_run
            /\ UNCHANGED <<benchVars, fusion_pc, retrieverVars, graphVars>>

NextRuns == VerifyInformation

SpecRuns == InitFusion /\ [][NextRuns]_vars

\* this run and the one before it had the same input and the same answers
\* from every collaborator
SameInputsAsPreviousRun ==
    /\ report.done /\ prev_run.done
    /\ prev_run.rule_results = fusion_in.rule_results
    /\ prev_run.sentiment = fusion_in.nlp_results.sentiment
    /\ prev_run.bias_analysis = fusion_in.nlp_results.bias_analysis

\* C16, as stated: two runs on the same input, with the same responses from
\* every collaborator, produce the same final score.
C16_SameInputsSameScore ==
    SameInputsAsPreviousRun => RatEq(prev_run.score, fusion_out.score)

----------------------------------------------------------------------------
(* Evidence retrieval: the searcher branch, any k, batches                 *)

\* bound of the model: claims in one batch
MaxBatch == 2

\* the claims and the k a caller may pass: the empty claim and a negative k
\* included
AnyClaims == Claims \cup {<< >>}
AnyKArgs == {NoArg} \cup {<<k>> : k \in -1..MaxK}

\* IREngine.search_pyserini: the external index holds the documents of the
\* corpus and answers under the contract of the in-memory ranker; a query
\* to an index that cannot be reached raises
IndexError == [raised |-> TRUE, results |-> << >>]
ir_search_pyserini(query, k, reachable) ==
    IF reachable THEN [raised |-> FALSE, results |-> search_in_memory(query, k)]
    ELSE IndexError

\* TRECRetriever._search_pyserini: the call handed on, nothing caught
search_pyserini(query, k, reachable) == ir_search_pyserini(query, k, reachable)

RaisedCall == [raised |-> TRUE, served_by |-> "pyserini", result |-> NoResult, trace |-> NoTrace]

\* retrieve_evidence: "k = k or self.DEFAULT_K"
effective_k(k_arg) == IF k_arg = NoArg \/ k_arg = <<0>> THEN DEFAULT_K ELSE k_arg[1]

\* retrieve_evidence: "use_prf if use_prf is not None else self.enable_prf"
effective_use_prf(use_prf_arg, enable_prf) ==
    IF use_prf_arg # NoArg THEN use_prf_arg[1] ELSE enable_prf

\* retrieve_evidence from "Convert to Evidence objects" to the return, for
\* the results of the searcher
materialize(claim, results, first_hits, use_prf, tried_prf, expansion, ranker_runs) ==
    [raised |-> FALSE, served_by |-> "pyserini",
     result |-> [query |-> claim,
                 evidences |-> [i \in 1..Len(results) |->
                                   [doc_id |-> results[i].doc_id,
                                    text |-> get_document_text(results[i].doc_id),
                                    score |-> results[i].score,
                                    rank |-> results[i].rank]],
                 total_retrieved |-> Len(results),
                 expanded_query |-> IF tried_prf THEN <<expansion>> ELSE NoArg],
     trace |-> [ranker_runs |-> ranker_runs,
                use_prf |-> use_prf,
                first_hits |-> first_hits,
                expansion |-> expansion]]

\* retrieve_evidence after the re-search with the expanded query
after_second_search(claim, first_hits, use_prf, expansion, response) ==
    IF response.raised THEN RaisedCall
    ELSE materialize(claim, response.results, first_hits, use_prf, TRUE, expansion, 2)

\* retrieve_evidence after _apply_prf: "if expanded_query != claim"
after_expansion(claim, k, use_prf, results1, expansion, reach2) ==
    IF ExpansionChanged(expansion, claim)
    THEN after_second_search(claim, Len(results1), use_prf, expansion,
                             search_pyserini(preprocess(expansion), k, reach2))
    ELSE materialize(claim, results1, Len(results1), use_prf, TRUE, expansion, 1)

\* retrieve_evidence after the first _search_pyserini: an exception of the
\* search leaves the method; "if use_prf and len(response.results) >=
\* self.prf_top_docs"
after_first_search(claim, k, use_prf, prf_top_docs, response1, reach2) ==
    IF response1.raised THEN RaisedCall
    ELSE IF use_prf /\ Len(response1.results) >= prf_top_docs
    THEN after_expansion(claim, k, use_prf, response1.results,
                         apply_prf(claim, Slice(response1.results, prf_top_docs)), reach2)
    ELSE materialize(claim, response1.results, Len(response1.results), use_prf,
                     FALSE, claim, 1)

\* the call served by the in-memory ranker
from_memory(r) ==
    [raised |-> FALSE, served_by |-> "in_memory", result |-> r.result, trace |-> r.trace]

\* TRECRetriever.retrieve_evidence with both branches of
\* "if self.ir_engine.searcher": reach1 and reach2 say whether the index
\* answers the first and the second search
retrieve_evidence(claim, k_arg, use_prf_arg, enable_prf, prf_top_docs, searcher, reach1, reach2) ==
    IF ~searcher
    THEN from_memory(retrieve(claim, k_arg, use_prf_arg, enable_prf, prf_top_docs))
    ELSE after_first_search(claim, effective_k(k_arg),
                            effective_use_prf(use_prf_arg, enable_prf), prf_top_docs,
                            search_pyserini(preprocess(claim), effective_k(k_arg), reach1),
                            reach2)

\* how a call that ended this way is recorded
OutcomeOf(r) == [kind |-> IF r.raised THEN "raised" ELSE "returned",
                 served_by |-> r.served_by,
                 index_error |-> r.raised]

\* a retriever constructed with or without an index that loaded (with or
\* without a Pyserini searcher), PRF enabled, its corpus loaded
InitFacade ==
    /\ corpus \in Corpora
    /\ ir_engine \in [searcher : BOOLEAN]
    /\ stats = [queries_processed |-> 0]
    /\ last_call = NoCall
    /\ last_result = NoResult
    /\ last_trace = NoTrace
    /\ first_call = NoCall
    /\ first_result = NoResult
    /\ other_calls = FALSE
    /\ requests = << >>
    /\ outcome = NoOutcome
    /\ batch = NoBatch
    /\ FusionIdle
    /\ GraphIdle
    /\ BenchIdle

\* without a searcher no search reaches for the index
Reaches(reach1, reach2) == ir_engine.searcher \/ (reach1 /\ reach2)

\* retrieve_evidence(claim, k, use_prf=...): the first call on the retriever.
\* An exception leaves before the statistics update.
RetrieveEvidenceAny ==
    /\ ~last_call.made
    /\ batch.pc = "idle"
    /\ \E claim \in AnyClaims, k \in AnyKArgs, use_prf \in PrfArgs, reach1, reach2 \in BOOLEAN :
          /\ Reaches(reach1, reach2)
          /\ \E r \in {retrieve_evidence(claim, k, use_prf, TRUE, PrfTopDocs,
                                        ir_engine.searcher, reach1, reach2)} :
              /\ last_call' = [claim |-> claim, k |-> k, use_prf |-> use_prf, made |-> TRUE]
              /\ last_result' = r.result
              /\ last_trace' = r.trace
              /\ outcome' = OutcomeOf(r)
              /\ stats' = IF r.raised THEN stats
                          ELSE [stats EXCEPT !.queries_processed = @ + 1]
    /\ UNCHANGED <<benchVars, corpus, first_call, first_result, other_calls, requests, ir_engine, batch,
                   fusionVars, graphVars>>

RECURSIVE SeqsOver(_, _)
SeqsOver(S, n) ==
    IF n = 0 THEN {<< >>}
    ELSE LET shorter == SeqsOver(S, n - 1)
         IN  shorter \cup {Append(q, x) : q \in {p \in shorter : Len(p) = n - 1}, x \in S}

\* batch_retrieve(claims, k): results = []
BatchRetrieve ==
    /\ ~last_call.made
    /\ batch.pc = "idle"
    /\ \E claims \in SeqsOver(Claims, MaxBatch), k \in KArgs :
          batch' = [pc |-> "running", claims |-> claims, k |-> k, results |-> << >>]
    /\ UNCHANGED <<benchVars, corpus, stats, last_call, last_result, last_trace, first_call, first_result,
                   other_calls, requests, ir_engine, outcome, fusionVars, graphVars>>

\* results.insert(0, result)
batch_results_Prepended(results, result) == <<result>> \o results

\* batch_retrieve: results.append(result)
batch_results(results, result) == Append(results, result)

\* one turn of batch_retrieve's loop: retrieve_evidence(claim, k=k, model=model)
\* for the next claim; an exception leaves batch_retrieve
BatchStep ==
    /\ batch.pc = "running"
    /\ Len(batch.results) < Len(batch.claims)
    /\ \E reach1, reach2 \in BOOLEAN, claim \in {batch.claims[Len(batch.results) + 1]} :
          /\ Reaches(reach1, reach2)
          /\ \E r \in {retrieve_evidence(claim, batch.k, NoArg, TRUE, PrfTopDocs,
                                        ir_engine.searcher, reach1, reach2)} :
              /\ last_call' = [claim |-> claim, k |-> batch.k, use_prf |-> NoArg, made |-> TRUE]
              /\ last_result' = r.result
              /\ last_trace' = r.trace
              /\ outcome' = OutcomeOf(r)
              /\ stats' = IF r.raised THEN stats
                          ELSE [stats EXCEPT !.queries_processed = @ + 1]
              /\ batch' = IF r.raised THEN [batch EXCEPT !.pc = "raised"]
                          ELSE [batch EXCEPT !.results = batch_results(@, r.result)]
    /\ UNCHANGED <<benchVars, corpus, first_call, first_result, other_calls, requests, ir_engine,
                   fusionVars, graphVars>>

\* batch_retrieve: return results
BatchReturn ==
    /\ batch.pc = "running"
    /\ Len(batch.results) >= Len(batch.claims)
    /\ batch' = [batch EXCEPT !.pc = "returned"]
    /\ UNCHANGED <<benchVars, corpus, stats, last_call, last_result, last_trace, first_call, first_result,
                   other_calls, requests, ir_engine, outcome, fusionVars, graphVars>>

NextFacade ==
    \/ RetrieveEvidenceAny
    \/ BatchRetrieve
    \/ BatchStep
    \/ BatchReturn

SpecFacade == InitFacade /\ [][NextFacade]_vars

\* the last call was a single retrieve_evidence call, not a turn of a batch
SingleCall == last_call.made /\ batch.pc = "idle"

\* the index was unavailable to the call: the retriever has no searcher, or
\* the searcher could not reach its index
IndexUnavailable == ~ir_engine.searcher \/ outcome.index_error

\* C17, as stated: when the external search index is unavailable,
\* retrieve_evidence serves the request from the in-memory ranker and
\* returns a normal RetrievalResult; no error reaches the caller.
C17_IndexUnavailableFallsBack ==
    (SingleCall /\ IndexUnavailable) =>
        /\ outcome.kind = "returned"
        /\ outcome.served_by = "in_memory"
        /\ last_result.total_retrieved = Len(last_result.evidences)

\* the part of C17 the code keeps: a retriever without searcher answers
\* from the in-memory ranker
NoSearcherFallsBack ==
    (SingleCall /\ ~ir_engine.searcher) =>
        /\ outcome.kind = "returned"
        /\ outcome.served_by = "in_memory"

\* the query the rankers get is empty: the claim has no term left after
\* preprocessing
EmptyQuery == preprocess(last_call.claim) = << >>

Standalone(claim, k_arg) ==
    retrieve_evidence(claim, k_arg, NoArg, TRUE, PrfTopDocs, ir_engine.searcher, TRUE, TRUE).result

\* C19: batch_retrieve(claims, k, model) returns exactly one RetrievalResult
\* per input claim, in input order, each with the evidences a standalone
\* retrieve_evidence call for that claim returns, whatever the other claims
\* of the batch and their order.
C19_BatchMatchesStandaloneCalls ==
    batch.pc = "returned" =>
        /\ Len(batch.results) = Len(batch.claims)
        /\ \A i \in 1..Len(batch.claims) :
              /\ batch.results[i].query = batch.claims[i]
              /\ batch.results[i].evidences = Standalone(batch.claims[i], batch.k).evidences

\* a batch of two different claims returned two results with different
\* evidences
C19_Witness ==
    /\ batch.pc = "returned"
    /\ Len(batch.claims) = MaxBatch
    /\ batch.claims[1] # batch.claims[2]
    /\ batch.results[1].evidences # batch.results[2].evidences
    /\ batch.results[2].evidences # << >>

\* the caller passed a negative k
NegativeK == last_call.k # NoArg /\ last_call.k[1] < 0

\* C20, as stated: a retrieval call with a negative k fails loudly
\* (assertion or fatal error) and never returns a result.
C20_NegativeKFailsLoudly ==
    (SingleCall /\ NegativeK) => outcome.kind = "raised"

----------------------------------------------------------------------------
(* TREC dataset: qrels files                                               *)

\* bound of the model: lines in one qrels file
MaxLines == 3

\* a line of a qrels file, as line.strip().split() gives it: complete
\* lines, a line of three parts, a blank line, a line whose relevance is
\* not a number
QrelLineSet == {<<"51", "0", "D1", "1">>, <<"51", "0", "D2", "0">>, <<"52", "0", "D1", "1">>,
                <<"51", "0", "D1">>, << >>, <<"51", "0", "D2", "high">>}

\* Python's int() on a token: the number, or a ValueError
IntTokens == {"0", "1"}
IsInt(token) == token \in IntTokens
int(token) == IF token = "0" THEN 0 ELSE 1

\* the dict after self.qrels[topic_id][doc_id] = relevance
SetQrel(q, topic_id, doc_id, relevance) ==
    LET old == IF topic_id \in DOMAIN q THEN q[topic_id] ELSE << >>
        new == [d \in DOMAIN old \cup {doc_id} |-> IF d = doc_id THEN relevance ELSE old[d]]
    IN  [t \in DOMAIN q \cup {topic_id} |-> IF t = topic_id THEN new ELSE q[t]]

\* TRECDataset._parse_qrel_file, the loop over the lines inside the try: a
\* line of fewer than four parts is passed over; int() raising on the
\* fourth part leaves the loop for the except clause, which returns what
\* was counted so far
RECURSIVE parse_lines(_, _, _)
parse_lines(q, count, lines) ==
    IF lines = << >> THEN [qrels |-> q, count |-> count]
    ELSE LET parts == Head(lines)
         IN  IF Len(parts) >= 4
             THEN IF IsInt(parts[4])
                  THEN parse_lines(SetQrel(q, parts[1], parts[3], int(parts[4])),
                                   count + 1, Tail(lines))
                  ELSE [qrels |-> q, count |-> count]
             ELSE parse_lines(q, count, Tail(lines))

\* TRECDataset._parse_qrel_file
parse_qrel_file(q, lines) == parse_lines(q, 0, lines)

\* a TRECDataset with nothing loaded
InitDataset ==
    /\ RetrieverIdle
    /\ FusionIdle
    /\ GraphIdle
    /\ BenchIdle

\* _parse_qrel_file(file_path) on a file with these lines
ParseQrelFile ==
    /\ ~qrel_load.done
    /\ \E lines \in SeqsOver(QrelLineSet, MaxLines) :
          \E r \in {parse_qrel_file(qrels, lines)} :
              /\ qrels' = r.qrels
              /\ qrel_load' = [done |-> TRUE, lines |-> lines, count |-> r.count]
    /\ UNCHANGED <<run_file, metric_call, bench, trec_retriever, retrieverVars, graphVars, fusionVars>>

NextDataset == ParseQrelFile

SpecDataset == InitDataset /\ [][NextDataset]_vars

\* a line in the qrels format: topic_id, 0, doc_id, an integer relevance
WellFormed(line) == Len(line) = 4 /\ IsInt(line[4])

\* the line's judgment is in self.qrels
Loaded(line) ==
    /\ line[1] \in DOMAIN qrels
    /\ line[3] \in DOMAIN qrels[line[1]]

\* C21, as stated: when a qrels file has an unparseable line, only that
\* line is skipped: every well-formed line before and after it in the file
\* is loaded.
C21_OnlyUnparseableLineSkipped ==
    qrel_load.done =>
        \A i \in 1..Len(qrel_load.lines) :
            WellFormed(qrel_load.lines[i]) => Loaded(qrel_load.lines[i])

\* what the code keeps of C21: the well-formed lines before the first line
\* whose relevance is not a number are loaded, and lines of fewer than
\* four parts cost nothing
LinesBeforeBadRelevanceLoaded ==
    qrel_load.done =>
        \A i \in 1..Len(qrel_load.lines) :
            (/\ WellFormed(qrel_load.lines[i])
             /\ \A j \in 1..(i - 1) : Len(qrel_load.lines[j]) >= 4 => IsInt(qrel_load.lines[j][4]))
                => Loaded(qrel_load.lines[i])

----------------------------------------------------------------------------
(* TREC dataset: run files                                                 *)

\* bound of the model: results in one run
MaxResults == 2

\* a text is a sequence of characters; "SP" is the space, "NL" the newline
Digits == <<"0", "1", "2", "3", "4", "5", "6", "7", "8", "9">>
IsDigit(c) == \E d \in 1..Len(Digits) : Digits[d] = c
DigitValue(c) == (CHOOSE d \in 1..Len(Digits) : Digits[d] = c) - 1

\* Python's str() of an integer n >= 0
RECURSIVE str(_)
str(n) == IF n < 10 THEN <<Digits[n + 1]>> ELSE str(n \div 10) \o <<Digits[(n % 10) + 1]>>

\* the last width digits of n, leading zeros kept
RECURSIVE ZeroPadded(_, _)
ZeroPadded(n, width) ==
    IF width = 0 THEN << >>
    ELSE ZeroPadded(n \div 10, width - 1) \o <<Digits[(n % 10) + 1]>>

\* a score is a number of ten-millionths: one decimal more than the run
\* file keeps
SCORE_DECIMALS == 6
RECURSIVE TenTo(_)
TenTo(n) == IF n = 0 THEN 1 ELSE 10 * TenTo(n - 1)

\* the score cut after six decimals instead of rounded
format_score_Truncated(score) ==
    LET millionths == score \div 10
    IN  str(millionths \div TenTo(SCORE_DECIMALS)) \o <<".">>
            \o ZeroPadded(millionths % TenTo(SCORE_DECIMALS), SCORE_DECIMALS)

\* f"{score:.6f}": the score rounded to six decimals
format_score(score) ==
    LET millionths == (score + 5) \div 10
    IN  str(millionths \div TenTo(SCORE_DECIMALS)) \o <<".">>
            \o ZeroPadded(millionths % TenTo(SCORE_DECIMALS), SCORE_DECIMALS)

\* "\n".join(lines)
RECURSIVE JoinLines(_)
JoinLines(lines) ==
    IF lines = << >> THEN << >>
    ELSE IF Len(lines) = 1 THEN lines[1]
    ELSE lines[1] \o <<"NL">> \o JoinLines(Tail(lines))

\* format_trec_run: f"{topic_id} Q0 {doc_id} {rank} {score:.6f} {run_tag}"
run_line(r, run_tag) ==
    r.topic_id \o <<"SP", "Q", "0", "SP">> \o r.doc_id \o <<"SP">> \o str(r.rank) \o <<"SP">>
        \o format_score(r.score) \o <<"SP">> \o run_tag

\* TRECDataset.format_trec_run
format_trec_run(results, run_tag) ==
    JoinLines([i \in 1..Len(results) |-> run_line(results[i], run_tag)])

\* Python's text.split(sep)
RECURSIVE SplitAt(_, _)
SplitAt(text, sep) ==
    IF \A i \in 1..Len(text) : text[i] # sep THEN <<text>>
    ELSE LET i == CHOOSE j \in 1..Len(text) :
                      text[j] = sep /\ \A h \in 1..(j - 1) : text[h] # sep
         IN  <<SubSeq(text, 1, i - 1)>> \o SplitAt(SubSeq(text, i + 1, Len(text)), sep)

NonEmpty(piece) == piece # << >>

\* Python's line.split(): the parts between runs of whitespace
Fields(line) == SelectSeq(SplitAt(line, "SP"), NonEmpty)

IsNumber(token) == token # << >> /\ \A i \in 1..Len(token) : IsDigit(token[i])

RECURSIVE ToInt(_)
ToInt(token) ==
    IF token = << >> THEN 0
    ELSE 10 * ToInt(SubSeq(token, 1, Len(token) - 1)) + DigitValue(token[Len(token)])

\* a decimal with six decimals, and its value in ten-millionths
IsScore(token) ==
    LET parts == SplitAt(token, ".")
    IN  Len(parts) = 2 /\ IsNumber(parts[1]) /\ IsNumber(parts[2])
            /\ Len(parts[2]) = SCORE_DECIMALS
ScoreValue(token) ==
    LET parts == SplitAt(token, ".")
    IN  10 * (ToInt(parts[1]) * TenTo(SCORE_DECIMALS) + ToInt(parts[2]))

Unparsed == [ok |-> FALSE, topic_id |-> << >>, doc_id |-> << >>, rank |-> 0, score |-> 0]

\* a run line read back the way a qrels line is read: split at whitespace,
\* topic_id, Q0, doc_id, rank, score, run_tag
parse_run_line(line) ==
    LET f == Fields(line)
    IN  IF Len(f) = 6 /\ IsNumber(f[4]) /\ IsScore(f[5])
        THEN [ok |-> TRUE, topic_id |-> f[1], doc_id |-> f[3],
              rank |-> ToInt(f[4]), score |-> ScoreValue(f[5])]
        ELSE Unparsed

\* the lines of a run file, blank lines left out
RunLines(text) == SelectSeq(SplitAt(text, "NL"), NonEmpty)

parse_run(text) == [i \in 1..Len(RunLines(text)) |-> parse_run_line(RunLines(text)[i])]

\* the results a run may hold: a doc_id with a space in it, scores with
\* and without a seventh decimal, one that rounds up to 1.000000
RunTag == <<"r", "u", "n">>
RunResults == [topic_id : {<<"5", "1">>},
               doc_id : {<<"D", "1">>, <<"A", "P", "SP", "8">>},
               rank : 1..MaxResults,
               score : {0, 1234560, 1234567, 9999996}]

\* format_trec_run(results, run_tag), the text written to the run file
FormatTrecRun ==
    /\ ~run_file.done
    /\ \E results \in SeqsOver(RunResults, MaxResults) :
          run_file' = [done |-> TRUE, results |-> results,
                       text |-> format_trec_run(results, RunTag)]
    /\ UNCHANGED <<qrels, qrel_load, metric_call, bench, trec_retriever, retrieverVars, graphVars, fusionVars>>

NextRunFile == FormatTrecRun

SpecRunFile == InitDataset /\ [][NextRunFile]_vars

Parsed == parse_run(run_file.text)
NoWhitespace(text) == \A i \in 1..Len(text) : text[i] \notin {"SP", "NL"}
PlainIds ==
    \A i \in 1..Len(run_file.results) :
        NoWhitespace(run_file.results[i].topic_id) /\ NoWhitespace(run_file.results[i].doc_id)
RoundedToSixDecimals(score) == 10 * ((score + 5) \div 10)

\* C22, as stated: each result is written as exactly one line
\* "<topic_id> Q0 <doc_id> <rank> <score with 6 decimals> <run_tag>", and
\* parsing the lines recovers, one per result and in order, the same
\* (topic_id, doc_id, rank, score) tuples.
C22_RunFileRoundTrip ==
    run_file.done =>
        /\ Len(Parsed) = Len(run_file.results)
        /\ \A i \in 1..Len(Parsed) :
              /\ Parsed[i].ok
              /\ Parsed[i].topic_id = run_file.results[i].topic_id
              /\ Parsed[i].doc_id = run_file.results[i].doc_id
              /\ Parsed[i].rank = run_file.results[i].rank
              /\ Parsed[i].score = run_file.results[i].score

\* C22, amended: for topic and document ids without whitespace, each
\* result is written as exactly one line of the six fields, and parsing
\* the lines recovers, one per result and in order, the same topic_id,
\* doc_id and rank, and the score rounded to six decimals.
C22_RunFileRoundTripToSixDecimals ==
    (run_file.done /\ PlainIds) =>
        /\ Len(RunLines(run_file.text)) = Len(run_file.results)
        /\ \A i \in 1..Len(run_file.results) :
              /\ Len(Fields(RunLines(run_file.text)[i])) = 6
              /\ Fields(RunLines(run_file.text)[i])[2] = <<"Q", "0">>
              /\ Fields(RunLines(run_file.text)[i])[6] = RunTag
              /\ Parsed[i].ok
              /\ Parsed[i].topic_id = run_file.results[i].topic_id
              /\ Parsed[i].doc_id = run_file.results[i].doc_id
              /\ Parsed[i].rank = run_file.results[i].rank
              /\ Parsed[i].score = RoundedToSixDecimals(run_file.results[i].score)

\* a run of MaxResults results with plain ids was written, one of its
\* scores having a seventh decimal and one rounding up to 1.000000
C22_Witness ==
    /\ run_file.done
    /\ PlainIds
    /\ Len(run_file.results) = MaxResults
    /\ \E i \in 1..Len(run_file.results) : run_file.results[i].score % 10 # 0
    /\ \E i \in 1..Len(Parsed) : Parsed[i].ok /\ Parsed[i].score = 10000000

----------------------------------------------------------------------------
(* Evaluation metrics: recall_at_k                                         *)

\* bound of the model: documents in a retrieved list
MaxRetrieved == 2

MetricDocs == {"doc1", "doc2", "doc3"}

\* recall divided by k, as precision is
recall_at_k_DividedByK(retrieved, relevant, k) ==
    IF relevant = {} THEN <<0, 1>>
    ELSE <<Cardinality(SeqToSet(Slice(retrieved, k)) \cap relevant), k>>

\* EvaluationMetrics.recall_at_k: |retrieved[:k] n relevant| / |relevant|,
\* 0 when relevant is empty; a fraction <<numerator, denominator>>
recall_at_k(retrieved, relevant, k) ==
    IF relevant = {} THEN <<0, 1>>
    ELSE <<Cardinality(SeqToSet(Slice(retrieved, k)) \cap relevant), Cardinality(relevant)>>

\* eval_metrics.recall_at_k(retrieved, relevant, k), as trec_metrics and the
\* tests call it: any list, duplicates included, any relevant set, k >= 1
\* up to one past the longest list
RecallAtK ==
    /\ ~metric_call.done
    /\ \E retrieved \in SeqsOver(MetricDocs, MaxRetrieved), relevant \in SUBSET MetricDocs,
          k \in 1..(MaxRetrieved + 1) :
          metric_call' = [done |-> TRUE, retrieved |-> retrieved, relevant |-> relevant,
                          k |-> k, value |-> recall_at_k(retrieved, relevant, k)]
    /\ UNCHANGED <<qrels, qrel_load, run_file, bench, trec_retriever, retrieverVars, graphVars, fusionVars>>

NextMetrics == RecallAtK

SpecMetrics == InitDataset /\ [][NextMetrics]_vars

\* C23: for a fixed retrieved list and relevant set,
\* recall_at_k(retrieved, relevant, k) <= recall_at_k(retrieved, relevant, k + 1)
\* for every k >= 1, k beyond the length of the list included.
C23_RecallMonotoneInK ==
    metric_call.done =>
        RatLeq(metric_call.value,
               recall_at_k(metric_call.retrieved, metric_call.relevant, metric_call.k + 1))

\* recall was computed at a k at or beyond the end of a list that holds
\* some but not all of the relevant documents
C23_Witness ==
    /\ metric_call.done
    /\ metric_call.k >= Len(metric_call.retrieved)
    /\ metric_call.value[1] > 0
    /\ metric_call.value[1] < metric_call.value[2]

----------------------------------------------------------------------------
(* Remote LIAR benchmark: RemoteLIARBenchmark and main                     *)

\* bound of the model: statements in one run
MaxStatements == 3

\* scores are in hundredths
SYSCRED_THRESHOLD == 50
NEUTRAL_SCORE == 50

\* the statements of the split: text and ground truth
Statements == {[id |-> "s1", statement |-> "taxes rose", binary_label |-> "Real"],
               [id |-> "s2", statement |-> "the moon is cheese", binary_label |-> "Fake"]}

\* what the service would score a statement it accepts
ServiceScores == {20, 80}

\* how the API is when a request reaches for it
ApiConditions == {"healthy", "timeout", "connection_error", "server_error", "not_json"}

\* verify_endpoint, its validation: data.get('input_data', '').strip(),
\* 400 when that is empty
verify_endpoint(body, score) ==
    LET input_data == IF body.key = "input_data" THEN body.value ELSE ""
    IN  IF input_data = ""
        THEN [status |-> 400, error |-> "'input_data' is required", scoreCredibilite |-> NoneNum]
        ELSE [status |-> 200, error |-> "None", scoreCredibilite |-> score]

\* the request body _call_api posts: json={"input": text}
request_body(text) == [key |-> "input", value |-> text]

\* _call_api without its except clauses
call_api_NothingCaught(text, condition, score) ==
    IF condition = "healthy"
    THEN LET response == verify_endpoint(request_body(text), score)
         IN  IF response.status = 200
             THEN [raised |-> FALSE, error |-> "None", scoreCredibilite |-> response.scoreCredibilite]
             ELSE [raised |-> FALSE, error |-> "HTTP 400", scoreCredibilite |-> NoneNum]
    ELSE IF condition = "server_error"
    THEN [raised |-> FALSE, error |-> "HTTP 500", scoreCredibilite |-> NoneNum]
    ELSE [raised |-> TRUE, error |-> condition, scoreCredibilite |-> NoneNum]

\* RemoteLIARBenchmark._call_api: the JSON of a 200 response; an error
\* dict for another status, for a timeout, a connection error, and for any
\* other exception (a body that is not JSON)
call_api(text, condition, score) ==
    IF condition = "healthy"
    THEN LET response == verify_endpoint(request_body(text), score)
         IN  IF response.status = 200
             THEN [raised |-> FALSE, error |-> "None", scoreCredibilite |-> response.scoreCredibilite]
             ELSE [raised |-> FALSE, error |-> "HTTP 400", scoreCredibilite |-> NoneNum]
    ELSE IF condition = "server_error"
    THEN [raised |-> FALSE, error |-> "HTTP 500", scoreCredibilite |-> NoneNum]
    ELSE IF condition = "timeout"
    THEN [raised |-> FALSE, error |-> "Request timeout", scoreCredibilite |-> NoneNum]
    ELSE IF condition = "connection_error"
    THEN [raised |-> FALSE, error |-> "Connection error", scoreCredibilite |-> NoneNum]
    ELSE [raised |-> FALSE, error |-> "not JSON", scoreCredibilite |-> NoneNum]

\* _syscred_to_binary
syscred_to_binary(score) == IF score >= SYSCRED_THRESHOLD THEN "Real" ELSE "Fake"

\* RemoteLIARBenchmark.evaluate_statement, given what _call_api returned:
\* the record starts neutral (score 0.5, prediction Unknown, no error) and
\* takes the score, or the error
evaluate_statement(stmt, api_result, condition) ==
    IF api_result.error = "None"
    THEN [id |-> stmt.id, syscred_score |-> api_result.scoreCredibilite,
          predicted_binary |-> syscred_to_binary(api_result.scoreCredibilite),
          binary_correct |-> syscred_to_binary(api_result.scoreCredibilite) = stmt.binary_label,
          error |-> "None", api |-> condition]
    ELSE [id |-> stmt.id, syscred_score |-> NEUTRAL_SCORE,
          predicted_binary |-> "Unknown", binary_correct |-> FALSE,
          error |-> api_result.error, api |-> condition]

\* main: the benchmark constructed
InitBench ==
    /\ RetrieverIdle
    /\ FusionIdle
    /\ GraphIdle
    /\ BenchIdle

\* run_benchmark up to its loop: the statements loaded, self.results = []
RunBenchmark ==
    /\ bench.pc = "constructed"
    /\ \E statements \in SeqsOver(Statements, MaxStatements) :
          bench' = [bench EXCEPT !.pc = "evaluate", !.statements = statements,
                                 !.results = << >>]
    /\ UNCHANGED <<qrels, qrel_load, run_file, metric_call, trec_retriever, retrieverVars, graphVars, fusionVars>>

\* where the loop goes after an evaluation
after_evaluation_NoSleepAfterError(i, total, result) ==
    IF i < total - 1 /\ result.error = "None" THEN "sleep" ELSE "evaluate"

\* run_benchmark: "if i < total - 1: time.sleep(0.5)", i counted from 0
after_evaluation(i, total, result) == IF i < total - 1 THEN "sleep" ELSE "evaluate"

\* one turn of the loop up to the pacing: evaluate_statement(stmt) and
\* self.results.append(result); an exception of _call_api would leave
\* run_benchmark and main
EvaluateStatement ==
    /\ bench.pc = "evaluate"
    /\ Len(bench.results) < Len(bench.statements)
    /\ \E condition \in ApiConditions, score \in ServiceScores :
          \E api_result \in {call_api(bench.statements[Len(bench.results) + 1].statement,
                                      condition, score)} :
              \E result \in {evaluate_statement(bench.statements[Len(bench.results) + 1],
                                                api_result, condition)} :
                  bench' = IF api_result.raised
                           THEN [bench EXCEPT !.pc = "crashed", !.log = Append(@, "call")]
                           ELSE [bench EXCEPT
                                    !.pc = after_evaluation(Len(bench.results),
                                                            Len(bench.statements), result),
                                    !.results = Append(@, result),
                                    !.log = Append(@, "call")]
    /\ UNCHANGED <<qrels, qrel_load, run_file, metric_call, trec_retriever, retrieverVars, graphVars, fusionVars>>

\* time.sleep(0.5)
Sleep ==
    /\ bench.pc = "sleep"
    /\ bench' = [bench EXCEPT !.pc = "evaluate", !.log = Append(@, "sleep")]
    /\ UNCHANGED <<qrels, qrel_load, run_file, metric_call, trec_retriever, retrieverVars, graphVars, fusionVars>>

\* the loop is over: run_benchmark computes the metrics and returns them
\* to main
ReturnMetrics ==
    /\ bench.pc = "evaluate"
    /\ Len(bench.results) >= Len(bench.statements)
    /\ bench' = [bench EXCEPT !.pc = "returned"]
    /\ UNCHANGED <<qrels, qrel_load, run_file, metric_call, trec_retriever, retrieverVars, graphVars, fusionVars>>

\* main after run_benchmark returned: print_results, then
\* save_results(output, metrics) writes self.results
SaveResults ==
    /\ bench.pc = "returned"
    /\ bench' = [bench EXCEPT !.pc = "saved", !.saved = bench.results]
    /\ UNCHANGED <<qrels, qrel_load, run_file, metric_call, trec_retriever, retrieverVars, graphVars, fusionVars>>

\* the run is cancelled (Ctrl-C) during a call or a sleep: KeyboardInterrupt
\* is no Exception, so neither _call_api nor main's "except
\* FileNotFoundError" catches it, and the process ends
Cancel ==
    /\ bench.pc \in {"evaluate", "sleep"}
    /\ bench' = [bench EXCEPT !.pc = "cancelled"]
    /\ UNCHANGED <<qrels, qrel_load, run_file, metric_call, trec_retriever, retrieverVars, graphVars, fusionVars>>

NextBench ==
    \/ RunBenchmark
    \/ EvaluateStatement
    \/ Sleep
    \/ ReturnMetrics
    \/ SaveResults
    \/ Cancel

SpecBench == InitBench /\ [][NextBench]_vars

\* the statements evaluated so far
Evaluated == 1..Len(bench.results)

\* the call of result i failed: the API was not healthy
CallFailed(i) == bench.results[i].api # "healthy"

\* C24: a timeout or an error on one statement's call never aborts the run:
\* the statement gets a record with the error and the neutral score, the
\* records follow the statements in order, and a run that returns has
\* evaluated every statement
C24_ApiFailureNeverAbortsRun ==
    /\ bench.pc # "crashed"
    /\ \A i \in Evaluated :
          /\ bench.results[i].id = bench.statements[i].id
          /\ CallFailed(i) => /\ bench.results[i].error # "None"
                              /\ bench.results[i].syscred_score = NEUTRAL_SCORE
    /\ bench.pc \in {"returned", "saved"} => Len(bench.results) = Len(bench.statements)

\* a run that returned after its first call timed out
C24_Witness ==
    /\ bench.pc = "returned"
    /\ Len(bench.results) = 2
    /\ bench.results[1].api = "timeout"
    /\ bench.results[1].error = "Request timeout"
    /\ bench.results[2].api = "connection_error"

\* the run was cancelled after some statements had been evaluated
CancelledWithResults == bench.pc = "cancelled" /\ bench.results # << >>

\* C25: when a run is cancelled after some statements have been evaluated,
\* the results computed so far can be written to storage although the run
\* has not completed
C25_PartialResultsFlushable == CancelledWithResults => ENABLED SaveResults

\* results are written only by a run that returned
SavedOnlyAfterReturn == bench.saved # << >> => bench.pc = "saved"

\* positions of the calls in the run's log
CallPositions == {p \in 1..Len(bench.log) : bench.log[p] = "call"}

\* C26: between every two consecutive calls to the API there is a sleep,
\* whatever the earlier call's outcome
C26_DelayBetweenConsecutiveCalls ==
    \A p \in CallPositions : p + 1 \in DOMAIN bench.log => bench.log[p + 1] = "sleep"

\* a second call made after a first call that timed out, the sleep between them
C26_Witness ==
    /\ Len(bench.results) = 2
    /\ bench.results[1].api = "timeout"
    /\ bench.log = <<"call", "sleep", "call">>

\* the statements sent to a reachable, healthy API
SentToHealthyApi == {i \in Evaluated : bench.results[i].api = "healthy"}

\* C30: a statement sent to a healthy API passes the validation of
\* /api/verify and receives a score from the service
C30_RequestsPassInputValidation ==
    \A i \in SentToHealthyApi :
        /\ bench.results[i].error = "None"
        /\ bench.results[i].syscred_score \in ServiceScores

\* a healthy API answers every request of the benchmark with 400
HealthyApiRejectsEveryRequest ==
    \A i \in SentToHealthyApi :
        /\ bench.results[i].error = "HTTP 400"
        /\ bench.results[i].syscred_score = NEUTRAL_SCORE

----------------------------------------------------------------------------
(* The server's lazy initialisation of the shared retriever: trec_search   *)
(* and verify_endpoint test the module-level trec_retriever and construct  *)
(* it when it is None; app.run(threaded=True) runs each request in a       *)
(* thread of its own, and a thread can be preempted between the test and   *)
(* the assignment.  An instance is a number, None is 0.                    *)

\* bound of the model: requests that arrive before the retriever exists
MaxFirstRequests == 3

FirstRequests == 1..MaxFirstRequests

ArrivedRequest == [pc |-> "arrived", used |-> 0]

\* the server started: trec_retriever = None (line 111), the requests arrived
InitLazy ==
    /\ RetrieverIdle
    /\ FusionIdle
    /\ GraphIdle
    /\ qrels = NoQrels
    /\ qrel_load = NoQrelLoad
    /\ run_file = NoRunFile
    /\ metric_call = NoMetricCall
    /\ bench = NoBench
    /\ trec_retriever = [instance |-> 0, constructed |-> 0,
                         handlers |-> [t \in FirstRequests |-> ArrivedRequest]]

\* "if trec_retriever is None:"
TestRetriever(t) ==
    /\ trec_retriever.handlers[t].pc = "arrived"
    /\ trec_retriever' = [trec_retriever EXCEPT
                             !.handlers[t].pc = IF trec_retriever.instance = 0
                                                THEN "construct" ELSE "use"]
    /\ UNCHANGED <<qrels, qrel_load, run_file, metric_call, bench, retrieverVars, graphVars,
                   fusionVars>>

\* "trec_retriever = TRECRetriever(use_stemming=True, enable_prf=False)":
\* a new instance replaces whatever the global holds
ConstructRetriever(t) ==
    /\ trec_retriever.handlers[t].pc = "construct"
    /\ trec_retriever' = [trec_retriever EXCEPT
                             !.constructed = @ + 1,
                             !.instance = trec_retriever.constructed + 1,
                             !.handlers[t].pc = "use"]
    /\ UNCHANGED <<qrels, qrel_load, run_file, metric_call, bench, retrieverVars, graphVars,
                   fusionVars>>

\* "result = trec_retriever.retrieve_evidence(query, k=k, model=model)":
\* the request uses the instance the global holds now
UseRetriever(t) ==
    /\ trec_retriever.handlers[t].pc = "use"
    /\ trec_retriever' = [trec_retriever EXCEPT
                             !.handlers[t].pc = "done",
                             !.handlers[t].used = trec_retriever.instance]
    /\ UNCHANGED <<qrels, qrel_load, run_file, metric_call, bench, retrieverVars, graphVars,
                   fusionVars>>

NextLazy ==
    \E t \in FirstRequests :
        \/ TestRetriever(t)
        \/ ConstructRetriever(t)
        \/ UseRetriever(t)

SpecLazy == InitLazy /\ [][NextLazy]_vars

\* the requests that have used the retriever
Served == {t \in DOMAIN trec_retriever.handlers : trec_retriever.handlers[t].pc = "done"}

\* C27: under any interleaving of concurrent first requests the shared
\* retriever is constructed at most once, and every request uses that one
\* instance
C27_RetrieverConstructedOnce ==
    /\ trec_retriever.constructed <= 1
    /\ \A t, u \in Served : trec_retriever.handlers[t].used = trec_retriever.handlers[u].used

\* every request is served by an instance that was constructed
ServedByAnInstance ==
    \A t \in Served : trec_retriever.handlers[t].used \in 1..trec_retriever.constructed

----------------------------------------------------------------------------
(* Fusion: a penalising signal added to the others; the label of a report  *)
(* against its reported score                                              *)

\* the same NLP results without the bias signal
WithoutBias(n) == [n EXCEPT !.bias_analysis = [score |-> NoneNum, label |-> "Unavailable"]]

\* the score has been computed from signals that include a flagged bias
ScoredWithFlaggedBias ==
    /\ fusion_out.done
    /\ Flagged(fusion_in.nlp_results.bias_analysis.label)
    /\ fusion_in.nlp_results.bias_analysis.score # NoneNum

\* C28: adding a penalising signal (a flagged bias) to an otherwise
\* unchanged set of signals never gives a higher final score than the set
\* without it
C28_PenalisingSignalNeverRaisesScore ==
    ScoredWithFlaggedBias =>
        RatLeq(fusion_out.score,
               calculate_overall_score(fusion_in.rule_results,
                                       WithoutBias(fusion_in.nlp_results)).score)

\* the same rule results without the doubt markers
WithoutDoubt(r) == [r EXCEPT !.doubt = 0, !.certainty = 0]

\* doubt markers added to signals without linguistic markers never raise
\* the score
DoubtNeverRaisesScore ==
    (fusion_out.done /\ fusion_in.rule_results.doubt > 0
                     /\ fusion_in.rule_results.certainty = 0) =>
        RatLeq(fusion_out.score,
               calculate_overall_score(WithoutDoubt(fusion_in.rule_results),
                                       fusion_in.nlp_results).score)

\* C29: the label of a report is the label the threshold table gives to the
\* reported scoreCredibilite, the score rounded to two decimals
C29_LabelMatchesReportedScore ==
    report.done => report.label = CredibilityLabel(<<report.scoreCredibilite, 100>>)

====
